---- MODULE Spec2Model ----
(***************************************************************************)
(* A model of redax's StraxInserter (src/StraxInserter.cc): one worker     *)
(* thread running ReadAndInsertData, the chunk router AddFragmentToBuffer, *)
(* the chunk writer WriteOutFiles with its gap filler CreateMissing, the   *)
(* output directory tree, and the controller thread that calls Close() and *)
(* runs the destructor.                                                    *)
(*                                                                         *)
(* Strings (bucket names, directory names) are sequences of ASCII codes,   *)
(* so that std::to_string, the zero padding, substr, std::stoi and the     *)
(* std::map<std::string,...> iteration order are computed, not assumed.    *)
(*                                                                         *)
(* ParseDocuments is modelled from its fragment loop on: the words of a    *)
(* packet are decoded into a sequence of emissions, each the timestamp of  *)
(* one fragment handed to the router, either a waveform fragment (lines    *)
(* 318-371) or an artificial dead-time fragment (lines 295-298).  The      *)
(* emissions of a packet are drawn one at a time while it is parsed.       *)
(*                                                                         *)
(* The decoder of ParseDocuments (lines 149-382) is modelled word by word  *)
(* in the specifications DecodeSpec, DecodeStopSpec and DrainSpec: a       *)
(* packet is a sequence of 32-bit words, each word two 16-bit limbs, and   *)
(* the worker steps through the event header, the channel headers, the     *)
(* clock reconstruction, the sanity check, the fragment loop and the flush *)
(* of the per-channel byte counts.  Fragments are sequences of bytes and   *)
(* 64-bit times are four limbs, so the widths of the source are kept.  A   *)
(* read past the end of the packet's buffer yields any of a few words.     *)
(*                                                                         *)
(* The crate-control handler CControl_Handler (src/CControl_Handler.cc) is *)
(* modelled in the specification CrateSpec: each of DeviceArm, DeviceStart *)
(* and DeviceStop is one step, and what the options file and the hardware  *)
(* answer during a call is drawn from a small set.                         *)
(***************************************************************************)
EXTENDS Integers, Sequences, FiniteSets, TLC

-----------------------------------------------------------------------------
(* Bounds of the model *)

\* packets the packet source hands out during a run
MaxPackets == 3
\* packets in one batch returned by GetData (buffer_type "dual")
MaxBatch == 2
\* fragments routed during a run, over all packets
MaxFragments == 3
\* clock ticks: timestamps are ns_per_clk * (0..MaxClock)
MaxClock == 4
\* rounds of the destructor's short wait (500 in the code, line 46)
MaxShortWait == 1
\* rounds of the destructor's long wait (10 in the code, line 52)
MaxLongWait == 1
\* packets given to the packet decoder during a run
MaxDecPackets == 2
\* the same, for the runs in which the destructor stops the worker
MaxStopPackets == 1
\* the same, for the runs in which the controller drains the byte counts
MaxDrainPackets == 2
\* the largest chunk id among the buckets of the workers that share the tree
MaxPeerChunk == 1
\* the run numbers the crate-control handler is armed with: 1..MaxRun
MaxRun == 2

-----------------------------------------------------------------------------
(* Configuration, in model time units *)

\* fmt["ns_per_clk"]: nanoseconds per clock tick
ns_per_clk == 3
\* strax_chunk_length
fChunkLength == 2
\* strax_chunk_overlap
fChunkOverlap == 2
fFullChunkLength == fChunkLength + fChunkOverlap
fChunkNameLength == 6
\* the threshold of the end-of-stream flush, WriteOutFiles(1000000, true)
EndThreshold == 1000000

Times == {ns_per_clk * n : n \in 0..MaxClock}

\* one fragment handed to the router: its timestamp, and whether it is an
\* artificial dead-time fragment; the dead-time fragments of the model all
\* carry the first timestamp
Emissions == [t : Times, dead : {FALSE}] \cup [t : {0}, dead : {TRUE}]

\* the emissions of the runs that are about stopping the worker
StopEmissions == [t : {0}, dead : BOOLEAN]

\* dp->size of a packet, in bytes: an empty packet or one event header
PacketSizes == {0, 16}

\* a data_packet* that is nullptr; the packets of the model are 1, 2, ...
nullptr == 0

\* a bucket whose buffer was deleted and set to nullptr (lines 516-517); a
\* live buffer holds at least one fragment
NullBuffer == <<>>

-----------------------------------------------------------------------------
(* Strings as sequences of ASCII codes *)

Min(a, b) == IF a < b THEN a ELSE b

Ch0 == 48
ChMinus == 45
IsDigit(c) == c >= 48 /\ c <= 57

STR_pre == <<95, 112, 114, 101>>
STR_post == <<95, 112, 111, 115, 116>>
STR_temp == <<95, 116, 101, 109, 112>>
STR_THE_END == <<84, 72, 69, 95, 69, 78, 68>>

\* std::to_string(int)
RECURSIVE DigitsOf(_)
DigitsOf(n) == IF n < 10 THEN <<Ch0 + n>>
               ELSE DigitsOf(n \div 10) \o <<Ch0 + (n % 10)>>
to_string(n) == IF n < 0 THEN <<ChMinus>> \o DigitsOf(0 - n) ELSE DigitsOf(n)

\* while(chunk_index.size() < fChunkNameLength) chunk_index.insert(0, "0");
RECURSIVE PadName(_)
PadName(s) == IF Len(s) < fChunkNameLength THEN PadName(<<Ch0>> \o s) ELSE s

GetStringFormat(id) == PadName(to_string(id))

\* std::string::substr(0, n)
substr0(s, n) == SubSeq(s, 1, Min(n, Len(s)))

\* std::stoi on a string that starts with digits: the leading digits, base 10
RECURSIVE StoiFrom(_, _)
StoiFrom(s, acc) == IF s = <<>> \/ ~IsDigit(Head(s)) THEN acc
                    ELSE StoiFrom(Tail(s), 10 * acc + (Head(s) - Ch0))
stoi(s) == StoiFrom(s, 0)

\* operator< of std::string: lexicographic on the character codes
RECURSIVE StrLess(_, _)
StrLess(a, b) == IF b = <<>> THEN FALSE
                 ELSE IF a = <<>> THEN TRUE
                 ELSE IF Head(a) # Head(b) THEN Head(a) < Head(b)
                 ELSE StrLess(Tail(a), Tail(b))

\* the keys of a std::map<std::string, ...> in iteration order
RECURSIVE SortedKeys(_)
SortedKeys(S) == IF S = {} THEN <<>>
                 ELSE LET m == CHOOSE x \in S : \A y \in S \ {x} : StrLess(x, y)
                      IN <<m>> \o SortedKeys(S \ {m})

SeqToSet(s) == {s[i] : i \in 1..Len(s)}

\* the chunk id WriteOutFiles reads off a bucket name (lines 487-488)
IdNr(chunk_index) == stoi(substr0(chunk_index, fChunkNameLength))

-----------------------------------------------------------------------------
(* Machine integers wider than the model's: a u_int32_t is two and a 64-bit *)
(* integer four 16-bit limbs, the least significant first.  The limbs of a  *)
(* word of the packet buffer are also its two 16-bit samples.               *)

Limb == 65536

\* the n-limb image of an integer v >= 0
RECURSIVE FromInt(_, _)
FromInt(v, n) == IF n = 0 THEN <<>>
                 ELSE <<v % Limb>> \o FromInt(v \div Limb, n - 1)

\* a + b on n limbs, the carry out of the top limb dropped
RECURSIVE WAddC(_, _, _)
WAddC(a, b, carry) ==
  IF a = <<>> THEN <<>>
  ELSE LET s == Head(a) + Head(b) + carry
       IN <<s % Limb>> \o WAddC(Tail(a), Tail(b), s \div Limb)

WAdd(a, b) == WAddC(a, b, 0)

\* a * k for an integer 0 <= k < 2^15
RECURSIVE WMulC(_, _, _)
WMulC(a, k, carry) ==
  IF a = <<>> THEN <<>>
  ELSE LET s == Head(a) * k + carry
       IN <<s % Limb>> \o WMulC(Tail(a), k, s \div Limb)

WMulInt(a, k) == WMulC(a, k, 0)

\* a / d and a % d for an integer 0 < d < 2^15, from the top limb down
RECURSIVE WDivR(_, _, _)
WDivR(a, d, i) ==
  IF i > Len(a) THEN [q |-> <<>>, r |-> 0]
  ELSE LET up == WDivR(a, d, i + 1)
           cur == up.r * Limb + a[i]
       IN [q |-> <<cur \div d>> \o up.q, r |-> cur % d]

WDivInt(a, d) == WDivR(a, d, 1)

\* a < b, both unsigned with the same number of limbs
RECURSIVE WLess(_, _)
WLess(a, b) ==
  IF a = <<>> THEN FALSE
  ELSE LET n == Len(a)
       IN \/ a[n] < b[n]
          \/ a[n] = b[n] /\ WLess(SubSeq(a, 1, n - 1), SubSeq(b, 1, n - 1))

\* (unsigned long)w for a u_int32_t w
Widen(w) == w \o <<0, 0>>

\* (unsigned long)w << 31 and (unsigned long)w << 32 for a 32-bit w
Shl32(w) == <<0, 0>> \o w
Shl31(w) == WDivInt(Shl32(w), 2).q

\* (int)v for a 64-bit v: the low 32 bits, two's complement
Narrow(v) == IF v[2] < 32768 THEN v[2] * Limb + v[1]
             ELSE (v[2] - Limb) * Limb + v[1]

\* the bytes of a value in memory, little-endian
RECURSIVE Bytes(_)
Bytes(a) == IF a = <<>> THEN <<>>
            ELSE <<Head(a) % 256, Head(a) \div 256>> \o Bytes(Tail(a))

\* the fields of a 32-bit word that the decoder reads
Top4(w) == w[2] \div 4096
Low28(w) == (w[2] % 4096) * Limb + w[1]
Low23(w) == (w[2] % 128) * Limb + w[1]
Low16(w) == w[1]
Low8(w) == w[1] % 256
Top8(w) == w[2] \div 256
Bits16to29(w) == w[2] % 16384
Bit26(w) == (w[2] \div 1024) % 2 = 1

\* 0xFFFFFFFF: the terminator word, and "no time seen" in last_times_seen
NoWord == <<65535, 65535>>

\* __builtin_popcount
RECURSIVE popcount(_)
popcount(m) == IF m = 0 THEN 0 ELSE (m % 2) + popcount(m \div 2)

-----------------------------------------------------------------------------
(* The chunk router *)

\* int chunk_id = timestamp/fFullChunkLength; the timestamps of the model are
\* not negative and their quotients fit the int
ChunkId(timestamp) == timestamp \div fFullChunkLength

NextPre(timestamp) ==
  (ChunkId(timestamp) + 1) * fFullChunkLength - timestamp < fChunkOverlap

\* AppendToFresh: the key's buffer is made anew for every fragment
AppendToFresh(frags, key, fragment) ==
  (key :> <<fragment>>) @@ frags

\* fFragments[key]->append(fragment), creating the buffer when it is missing
AppendTo(frags, key, fragment) ==
  IF key \in DOMAIN frags
  THEN [frags EXCEPT ![key] = Append(@, fragment)]
  ELSE (key :> <<fragment>>) @@ frags

\* the bucket map after lines 398-423, for the chunk_id and nextpre of
\* lines 394-395
RouteFragment(frags, fragment, chunk_id, nextpre) ==
  LET chunk_index == PadName(to_string(chunk_id))
      nextchunk_index == PadName(to_string(chunk_id + 1))
  IN IF ~nextpre
     THEN AppendTo(frags, chunk_index, fragment)
     ELSE AppendTo(AppendTo(frags, nextchunk_index \o STR_pre, fragment),
                   chunk_index \o STR_post, fragment)

\* the bucket map after AddFragmentToBuffer(fragment, timestamp)
AddFragmentToBuffer(frags, fragment, timestamp) ==
  RouteFragment(frags, fragment, ChunkId(timestamp), NextPre(timestamp))

\* lines 394-395 for a timestamp of four limbs: the quotient is narrowed to
\* the int, and (chunk_id+1)*fFullChunkLength - timestamp is computed on 64
\* bits
ChunkId64(timestamp) == Narrow(WDivInt(timestamp, fFullChunkLength).q)

NextPre64(timestamp) ==
  LET chunk_id == ChunkId64(timestamp)
  IN IF chunk_id + 1 <= 0 THEN TRUE
     ELSE WLess(WMulInt(FromInt(chunk_id + 1, 4), fFullChunkLength),
                WAdd(timestamp, FromInt(fChunkOverlap, 4)))

AddFragmentToBuffer64(frags, fragment, timestamp) ==
  RouteFragment(frags, fragment, ChunkId64(timestamp), NextPre64(timestamp))

-----------------------------------------------------------------------------
(* The packet decoder's constants, board formats and input packets *)

max_channels == 16
event_header_words == 4
fStraxHeaderSize == 24

\* fmt["ns_per_sample"] of board 0, and of the boards with a channel header
ns_per_sample == 1
ns_per_sample_dpp == 2
\* fmt["ns_per_clk"] of the boards with a channel header: with one unit per
\* tick the chunk ids of the model's times fit the int of line 394
ns_per_clk_dpp == 1

\* the boards of the model and their data formats (fFmt): board 0 runs the
\* default firmware, board 1 DPP-DAW with a two-word channel header, board 2
\* DPP-DAW with a three-word channel header, a 16-bit channel mask and the
\* upper bits of the channel time in the header
Boards == {0, 1, 2}
fFmt ==
  [bid \in Boards |->
     [channel_header_words |-> IF bid = 0 THEN 0 ELSE IF bid = 1 THEN 2 ELSE 3,
      channel_mask_msb_idx |-> IF bid = 2 THEN 2 ELSE -1,
      channel_time_msb_idx |-> IF bid = 2 THEN 2 ELSE -1,
      ns_per_clk |-> IF bid = 0 THEN ns_per_clk ELSE ns_per_clk_dpp,
      ns_per_sample |-> IF bid = 0 THEN ns_per_sample
                       ELSE ns_per_sample_dpp]]

\* a strax_fragment_payload_bytes below 2: fFragmentBytes>>1 is 0
PayloadBytesBelowTwo == {1}

\* strax_fragment_payload_bytes: an odd size, and one with room for three
\* samples
PayloadBytes == {3, 6}

\* GetChannelAny: every channel has a number
GetChannelAny(unknown, bid, channel) == 100 * bid + channel

\* fOptions->GetChannel(bid, channel) for a channel map that knows every
\* channel but those of `unknown`
GetChannel(unknown, bid, channel) ==
  IF channel \in unknown THEN -1 ELSE 100 * bid + channel

\* the channel maps of the model: a complete one, and one without channel 1
ChannelMaps == {{}, {1}}

\* 15e8 and 5e8 as 32-bit values
T15e8 == FromInt(1500000000, 2)
T5e8 == FromInt(500000000, 2)

Word(v) == FromInt(v, 2)
\* an event header's first word, 0xA in the top nibble and the event's words
Hdr(n) == <<n, 40960>>
\* its second word: the low channel mask, and the board-fail bit 0x4000000
MaskWord(mask, fail) == <<mask, IF fail THEN 1024 ELSE 0>>
\* the third word of a board 2 event header: mask bits 8-15 in the top byte
MaskMsbWord(mask) == <<0, mask * 256>>
\* the third word of a board 2 channel header: baseline and time bits 32-47
MsbWord(baseline, msb) == <<msb, baseline>>
\* two samples
Data(a, c) == <<a, c>>

\* the largest time of a 31-bit clock
TMax31 == <<65535, 32767>>

DataPacket(bid, clock_counter, header_time, buff) ==
  [bid |-> bid, clock_counter |-> Word(clock_counter),
   header_time |-> header_time, buff |-> buff]

\* board 0: two channels of one word each, at a time in the overlap band
PktTwoChannels ==
  DataPacket(0, 0, Word(1),
    <<Hdr(6), MaskWord(3, FALSE), Word(0), Word(1), Data(1, 2), Data(3, 4)>>)
\* board 0: a padding word, one channel of two words, the terminator, and
\* words after it
PktPadded ==
  DataPacket(0, 0, Word(0),
    <<Word(0), Hdr(6), MaskWord(1, FALSE), Word(0), Word(0), Data(1, 2),
      Data(3, 4), NoWord, Hdr(4)>>)
\* board 0: an event with the board-fail bit, then a good event in chunk 1
PktBoardFail ==
  DataPacket(0, 0, Word(0),
    <<Hdr(4), MaskWord(1, TRUE), Word(0), Word(0),
      Hdr(5), MaskWord(1, FALSE), Word(0), Word(2), Data(1, 2)>>)
\* board 0: an event header inside the payload of channel 0 of two
PktStrayHeader ==
  DataPacket(0, 0, Word(0),
    <<Hdr(8), MaskWord(3, FALSE), Word(0), Word(0), Data(1, 2), Hdr(4),
      Data(3, 4), Data(5, 6)>>)
\* board 0: an event header cut off by the end of the packet
PktCutHeader ==
  DataPacket(0, 0, Word(0), <<Hdr(6), MaskWord(1, FALSE)>>)
\* board 0: an event that says it has more words than the packet
PktGarbledEvent ==
  DataPacket(0, 0, Word(0),
    <<Hdr(9), MaskWord(1, FALSE), Word(0), Word(0), Data(1, 2)>>)
\* board 0: the times of the upward rollover of board 1
PktDefaultUp ==
  DataPacket(0, 0, Word(1600000000),
    <<Hdr(5), MaskWord(1, FALSE), Word(0), Word(100000000), Data(1, 2)>>)

\* board 0: two events of channel 0, the clock wraps between them
PktDefaultWrap ==
  DataPacket(0, 0, TMax31,
    <<Hdr(5), MaskWord(1, FALSE), Word(0), TMax31, Data(1, 2),
      Hdr(5), MaskWord(1, FALSE), Word(0), Word(1), Data(3, 4)>>)

\* board 1: the channel's clock has rolled over, the packet's has not
PktRollUp ==
  DataPacket(1, 0, Word(1600000000),
    <<Hdr(7), MaskWord(1, FALSE), Word(0), Word(1600000000),
      Word(3), Word(100000000), Data(1, 2)>>)
\* board 1: the packet's clock has rolled over, the channel's has not
PktRollDown ==
  DataPacket(1, 3, Word(100000000),
    <<Hdr(7), MaskWord(1, FALSE), Word(0), Word(100000000),
      Word(3), Word(1800000000), Data(1, 2)>>)
\* board 1: the same with no rollover counted yet
PktRollDownZero ==
  DataPacket(1, 0, Word(100000000),
    <<Hdr(7), MaskWord(1, FALSE), Word(0), Word(100000000),
      Word(3), Word(1800000000), Data(1, 2)>>)
\* board 1: two events of channel 0, the clock wraps between them
PktWrap ==
  DataPacket(1, 1, TMax31,
    <<Hdr(7), MaskWord(1, FALSE), Word(0), TMax31,
      Word(3), TMax31, Data(1, 2),
      Hdr(7), MaskWord(1, FALSE), Word(0), Word(1),
      Word(3), Word(1), Data(3, 4)>>)
\* board 1: two events of channel 0 with increasing times
PktNoWrap ==
  DataPacket(1, 0, Word(0),
    <<Hdr(7), MaskWord(1, FALSE), Word(0), Word(0),
      Word(3), Word(0), Data(1, 2),
      Hdr(7), MaskWord(1, FALSE), Word(0), Word(2),
      Word(3), Word(2), Data(3, 4)>>)
\* board 1: two channels, two words and one, the second in the overlap band
PktTwoDpp ==
  DataPacket(1, 0, Word(0),
    <<Hdr(11), MaskWord(3, FALSE), Word(0), Word(0),
      Word(4), Word(0), Data(1, 2), Data(3, 4),
      Word(3), Word(1), Data(5, 6)>>)
\* board 1: a channel header that says it has more words than the event
PktGarbledChannel ==
  DataPacket(1, 0, Word(0),
    <<Hdr(7), MaskWord(3, FALSE), Word(0), Word(0),
      Word(9), Word(0), Data(1, 2)>>)
\* board 1: a channel with no payload, then one with a word
PktEmptyChannel ==
  DataPacket(1, 0, Word(0),
    <<Hdr(8), MaskWord(3, FALSE), Word(0), Word(0),
      Word(1), Word(3), Word(2), Data(1, 2)>>)
\* board 1: an event header inside the payload of channel 0 of two
PktStrayDpp ==
  DataPacket(1, 0, Word(0),
    <<Hdr(11), MaskWord(3, FALSE), Word(0), Word(0),
      Word(4), Word(2), Data(1, 2), Hdr(4),
      Word(3), Word(2), Data(5, 6)>>)
\* board 1: an event whose channel header lies beyond the packet
PktCutChannel ==
  DataPacket(1, 0, Word(0),
    <<Hdr(7), MaskWord(1, FALSE), Word(0), Word(0)>>)

\* board 2: channel 0, baseline 5, time 1
PktMsb ==
  DataPacket(2, 0, Word(0),
    <<Hdr(8), MaskWord(1, FALSE), MaskMsbWord(0), Word(0),
      Word(4), Word(1), MsbWord(5, 0), Data(1, 2)>>)
\* board 2: channel 8, baseline 7, time 2^32 + 2
PktMsbHigh ==
  DataPacket(2, 0, Word(0),
    <<Hdr(8), MaskWord(0, FALSE), MaskMsbWord(1), Word(0),
      Word(4), Word(2), MsbWord(7, 1), Data(1, 2)>>)

\* the packets the packet source hands to ParseDocuments
DataPackets ==
  {PktTwoChannels, PktPadded, PktBoardFail, PktStrayHeader, PktCutHeader,
   PktGarbledEvent, PktDefaultUp, PktDefaultWrap,
   PktRollUp, PktRollDown, PktRollDownZero, PktWrap, PktNoWrap, PktTwoDpp,
   PktGarbledChannel, PktEmptyChannel, PktStrayDpp, PktCutChannel,
   PktMsb, PktMsbHigh}

\* what a read beyond the end of the packet's words can find: nothing set,
\* a low bit set, the board-fail bit set
OobWords == {Word(0), Word(1), MaskWord(1, TRUE)}
OobReads == [0..3 -> OobWords]

\* the reads at offsets ks from word i of a packet of n words: those within
\* the packet do not look at what lies beyond it
OobChoices(n, i, ks) ==
  {oob \in OobReads : \A k \in 0..3 : (k \notin ks \/ i + k < n) => oob[k] = Word(0)}

-----------------------------------------------------------------------------
(* The packet decoder's arithmetic *)

\* buff[i], i counted from 0; a read beyond the packet's words finds oob[k]
Read(buff, i, oob, k) == IF i < Len(buff) THEN buff[i + 1] ELSE oob[k]

\* the integer of a 32-bit value below 2^31
ToInt(w) == w[2] * Limb + w[1]

\* a - c on u_int32_t, for integers a and c
USub32(a, c) ==
  IF a >= c THEN Word(a - c)
  ELSE LET x == c - a - 1 IN <<65535 - (x % Limb), 65535 - (x \div Limb)>>

Inc32(w) == WAdd(w, Word(1))
Dec32(w) == WAdd(w, NoWord)

\* std::min(a, w) for an integer a and a 32-bit w, as an integer
MinInt32(a, w) == IF WLess(w, Word(a)) THEN ToInt(w) ELSE a

\* EventHeaderNoFail: the header read without its board-fail bit
EventHeaderNoFail(fmt, buff, idx, oob) ==
  LET total_words == Len(buff)
      w1 == Read(buff, idx + 1, oob, 1)
      w2 == Read(buff, idx + 2, oob, 2)
      channel_mask == IF fmt.channel_mask_msb_idx # -1
                      THEN Top8(w2) * 256 + Low8(w1)
                      ELSE Low8(w1)
  IN [words_in_event |-> Min(Low28(buff[idx + 1]), total_words - idx),
      channel_mask |-> channel_mask,
      channels_in_event |-> popcount(channel_mask),
      board_fail |-> FALSE,
      event_time |-> Read(buff, idx + 3, oob, 3),
      event_start_idx |-> idx]

\* the event header at idx (lines 176-191)
EventHeader(fmt, buff, idx, oob) ==
  LET total_words == Len(buff)
      w1 == Read(buff, idx + 1, oob, 1)
      w2 == Read(buff, idx + 2, oob, 2)
      channel_mask == IF fmt.channel_mask_msb_idx # -1
                      THEN Top8(w2) * 256 + Low8(w1)
                      ELSE Low8(w1)
  IN [words_in_event |-> Min(Low28(buff[idx + 1]), total_words - idx),
      channel_mask |-> channel_mask,
      channels_in_event |-> popcount(channel_mask),
      board_fail |-> Bit26(w1),
      event_time |-> Read(buff, idx + 3, oob, 3),
      event_start_idx |-> idx]

\* the clock counter and the last time seen of a channel after the rollover
\* logic of lines 248-263
ClockAfter(channel_time, header_time, ctr, last) ==
  LET first == IF WLess(T15e8, channel_time) /\ WLess(header_time, T5e8)
                  /\ last = NoWord /\ ctr # Word(0)
               THEN Dec32(ctr)
               ELSE IF WLess(channel_time, T5e8) /\ WLess(T15e8, header_time)
                       /\ last = NoWord
               THEN Inc32(ctr)
               ELSE ctr
  IN [ctr |-> IF WLess(channel_time, last) /\ last # NoWord
              THEN Inc32(first) ELSE first,
      last |-> channel_time]

\* Time64 (lines 285-293)
Time64Of(fmt, ctr, channel_timeMSB, channel_time) ==
  IF fmt.channel_time_msb_idx = 2
  THEN WMulInt(WAdd(Shl32(Word(channel_timeMSB)), Widen(channel_time)),
               fmt.ns_per_clk)
  ELSE WMulInt(WAdd(Shl31(ctr), Widen(channel_time)), fmt.ns_per_clk)

\* the sanity check of lines 269-281 for a channel of channel_words words
\* (32 bits) at idx
Whoops(buff, idx, channel_words, event_start_idx, words_in_event) ==
  LET total_words == Len(buff)
      room == IF idx >= total_words THEN 0 ELSE total_words - idx
  IN \/ WLess(Word(room), channel_words)
     \/ \E w \in 0..(MinInt32(room, channel_words) - 1) :
          Top4(buff[idx + w + 1]) = 10
     \/ idx - event_start_idx >= words_in_event

\* one channel of an event, from line 210 to line 298: what the decoder does
\* with it, and the channel's locals
DecodeChannel(dp, idx, ev, channel, clock_counters, last_times_seen, oob) ==
  LET fmt == fFmt[dp.bid]
      chw == fmt.channel_header_words
      h0 == Read(dp.buff, idx, oob, 0)
      h1 == Read(dp.buff, idx + 1, oob, 1)
      h2 == Read(dp.buff, idx + 2, oob, 2)
      claimed == MinInt32(Low23(h0),
                          USub32(ev.words_in_event, idx - ev.event_start_idx))
      garbled == chw > 0 /\ claimed < Low23(h0)
      empty == chw > 0 /\ ~garbled /\ claimed <= chw
      channel_words ==
        IF chw > 0 THEN Word(claimed - chw)
        ELSE WDivInt(USub32(ev.words_in_event, event_header_words),
                     ev.channels_in_event).q
      channel_time == IF chw > 0 THEN h1 ELSE ev.event_time
      msb2 == chw > 0 /\ fmt.channel_time_msb_idx = 2
      channel_timeMSB == IF msb2 THEN Low16(h2) ELSE 0
      baseline_ch == IF msb2 THEN Bits16to29(h2) ELSE 0
      at == idx + chw
      clock == IF chw > 0 /\ chw <= 2
               THEN ClockAfter(channel_time, dp.header_time,
                               clock_counters[channel],
                               last_times_seen[channel])
               ELSE [ctr |-> clock_counters[channel],
                     last |-> last_times_seen[channel]]
  IN IF garbled THEN [kind |-> "garbled", idx |-> idx + chw]
     ELSE IF empty THEN [kind |-> "empty", idx |-> idx + (chw - claimed)]
     ELSE [kind |-> IF Whoops(dp.buff, at, channel_words, ev.event_start_idx,
                              ev.words_in_event)
                    THEN "whoops" ELSE "pulse",
           idx |-> at,
           channel_words |-> channel_words,
           channel_time |-> channel_time,
           baseline_ch |-> baseline_ch,
           ctr |-> clock.ctr,
           last |-> clock.last,
           Time64 |-> Time64Of(fmt, clock.ctr, channel_timeMSB, channel_time)]

-----------------------------------------------------------------------------
(* The fragment builder *)

\* while((int)fragment.size() < size) fragment.append(zero, 1);
RECURSIVE ZeroPad(_, _)
ZeroPad(fragment, size) ==
  IF Len(fragment) < size THEN ZeroPad(Append(fragment, 0), size)
  ELSE fragment

\* the 16-bit sample i of the buffer (payload[i]) in memory
SampleBytes(buff, i) == Bytes(<<buff[(i \div 2) + 1][(i % 2) + 1]>>)

RECURSIVE PayloadBytesOf(_, _, _)
PayloadBytesOf(buff, from, n) ==
  IF n = 0 THEN <<>>
  ELSE SampleBytes(buff, from) \o PayloadBytesOf(buff, from + 1, n - 1)

\* DeadtimeFragmentBare: the header as it is appended, without the filler
DeadtimeFragmentBare(timestamp, bid, fragmentBytes) ==
  LET length == Word(fragmentBytes \div 2)
  IN Bytes(timestamp) \o Bytes(length) \o Bytes(FromInt(10, 1))
       \o Bytes(FromInt(790, 1)) \o Bytes(length)
       \o Bytes(FromInt(0, 1)) \o Bytes(FromInt(0, 1))
       \o Bytes(FromInt(bid, 1))

\* the fragment GenerateArtificialDeadtime(timestamp, bid) builds
DeadtimeFragment(timestamp, bid, fragmentBytes) ==
  LET length == Word(fragmentBytes \div 2)
  IN ZeroPad(Bytes(timestamp) \o Bytes(length) \o Bytes(FromInt(10, 1))
               \o Bytes(FromInt(790, 1)) \o Bytes(length)
               \o Bytes(FromInt(0, 1)) \o Bytes(FromInt(0, 1))
               \o Bytes(FromInt(bid, 1)),
             fragmentBytes + fStraxHeaderSize)

\* FragmentPlanNoStride: every fragment of a pulse carries the pulse's time
FragmentPlanNoStride(Time64, sw, fragment_samples, samples_in_pulse, index_in_pulse, fragment_index) ==
  LET cut == fragment_samples + fragment_index * fragment_samples
               > samples_in_pulse
      max_sample == IF cut
                    THEN index_in_pulse + (samples_in_pulse
                                           - fragment_index * fragment_samples)
                    ELSE index_in_pulse + fragment_samples
  IN [max_sample |-> max_sample,
      samples_this_fragment |-> IF cut THEN max_sample - index_in_pulse
                                ELSE fragment_samples,
      time_this_fragment |-> Time64]

\* the locals of one pass of the fragment loop (lines 322-332)
FragmentPlan(Time64, sw, fragment_samples, samples_in_pulse, index_in_pulse, fragment_index) ==
  LET cut == fragment_samples + fragment_index * fragment_samples
               > samples_in_pulse
      max_sample == IF cut
                    THEN index_in_pulse + (samples_in_pulse
                                           - fragment_index * fragment_samples)
                    ELSE index_in_pulse + fragment_samples
  IN [max_sample |-> max_sample,
      samples_this_fragment |-> IF cut THEN max_sample - index_in_pulse
                                ELSE fragment_samples,
      time_this_fragment |->
        WAdd(Time64, FromInt(fragment_samples * sw * fragment_index, 4))]

\* the fragment of lines 333-360
WaveformFragment(plan, sw, cl, samples_in_pulse, fragment_index, baseline_ch, buff, offset, index_in_pulse, fragmentBytes) ==
  ZeroPad(Bytes(plan.time_this_fragment)
            \o Bytes(Word(plan.samples_this_fragment))
            \o Bytes(FromInt(sw, 1)) \o Bytes(FromInt(cl, 1))
            \o Bytes(Word(samples_in_pulse))
            \o Bytes(FromInt(fragment_index, 1))
            \o Bytes(FromInt(baseline_ch, 1))
            \o PayloadBytesOf(buff, offset + index_in_pulse,
                              plan.samples_this_fragment),
          fragmentBytes + fStraxHeaderSize)

-----------------------------------------------------------------------------
(* The output tree: a set of directories and the files in them *)

\* {hostname}_{thread id}, the one file name a worker uses
FileName == "host_tid"

GetDirectoryPath(id, temp) == IF temp THEN id \o STR_temp ELSE id
GetFilePath(id, temp) == <<GetDirectoryPath(id, temp), FileName>>

\* if(!fs::exists(d)) fs::create_directory(d);
MkdirIfMissing(fs, d) == [fs EXCEPT !.dirs = @ \cup {d}]

FileExists(fs, path) == path \in DOMAIN fs.files

\* std::ofstream(path): creates the file or truncates it, then writes
WriteFile(fs, path, content) ==
  [fs EXCEPT !.files = (path :> content) @@ @]

\* fs::rename(from, to): replaces the file at `to` if there is one
Rename(fs, from, to) ==
  [fs EXCEPT !.files =
     (to :> fs.files[from]) @@ [p \in (DOMAIN fs.files) \ {from} |-> fs.files[p]]]

\* the compressed image of a buffer (LZ4F_compressFrame / blosc_compress_ctx)
Compress(data) == <<"lz4frame", data>>

\* a file opened and closed without a write
EmptyFile == <<>>

\* CreateIfMissing without its fs::exists tests: the file is opened anyway
CreateAlways(fs, name) ==
  WriteFile(MkdirIfMissing(fs, GetDirectoryPath(name, FALSE)),
            GetFilePath(name, FALSE), EmptyFile)

\* one of the three blocks of CreateMissing's loop body
CreateIfMissing(fs, name) ==
  IF ~FileExists(fs, GetFilePath(name, FALSE))
  THEN WriteFile(MkdirIfMissing(fs, GetDirectoryPath(name, FALSE)),
                 GetFilePath(name, FALSE), EmptyFile)
  ELSE fs

\* CreateMissingOne without its third block: no x_post placeholder
CreateMissingOneNoPost(fs, x) ==
  LET chunk_index == GetStringFormat(x)
      f1 == CreateIfMissing(fs, chunk_index)
  IN IF x # 0 THEN CreateIfMissing(f1, chunk_index \o STR_pre) ELSE f1

\* the body of CreateMissing's loop for one x
CreateMissingOne(fs, x) ==
  LET chunk_index == GetStringFormat(x)
      f1 == CreateIfMissing(fs, chunk_index)
      f2 == IF x # 0 THEN CreateIfMissing(f1, chunk_index \o STR_pre) ELSE f1
  IN CreateIfMissing(f2, chunk_index \o STR_post)

\* for(unsigned int x=fMissingVerified; x<back_from_id; x++)
RECURSIVE CreateMissingFrom(_, _, _)
CreateMissingFrom(fs, x, back_from_id) ==
  IF x < back_from_id
  THEN CreateMissingFrom(CreateMissingOne(fs, x), x + 1, back_from_id)
  ELSE fs

\* the output tree after CreateMissing(back_from_id)
CreateMissing(fs, missingVerified, back_from_id) ==
  CreateMissingFrom(fs, missingVerified, back_from_id)

\* fMissingVerified after CreateMissing(back_from_id)
MissingVerifiedAfter(missingVerified, back_from_id) == back_from_id

\* KeepsBucket without the margin of one chunk
KeepsBucketNoMargin(idnrint, smallest_index_seen, end) ==
  ~(idnrint < smallest_index_seen \/ end)

\* WriteOutFiles' test for leaving a bucket in memory (line 489)
KeepsBucket(idnrint, smallest_index_seen, end) ==
  ~(idnrint < smallest_index_seen - 1 \/ end)

\* the output tree after the body of WriteOutFiles' loop has written one
\* bucket: temp directory, temp file, final directory, rename (lines 492-530)
PersistBucket(fs, chunk_index, data) ==
  LET f1 == MkdirIfMissing(fs, GetDirectoryPath(chunk_index, TRUE))
      f2 == WriteFile(f1, GetFilePath(chunk_index, TRUE), Compress(data))
      f3 == MkdirIfMissing(f2, GetDirectoryPath(chunk_index, FALSE))
  IN Rename(f3, GetFilePath(chunk_index, TRUE), GetFilePath(chunk_index, FALSE))

-----------------------------------------------------------------------------
(* State *)

VARIABLES
  \* the worker object
  fActive, fRunning, fForceQuit, fBufferLength, fBytesProcessed,
  fFragments, fMissingVerified,
  \* the output tree under fOutputPath: [dirs, files]
  fs,
  \* the worker thread: its position, and the locals of ReadAndInsertData,
  \* ParseDocuments and WriteOutFiles
  pc, b, bi, dp_size, smallest_latest_index_seen,
  iterKeys, idx_to_clear, smallest_index_seen, end,
  \* history: fFragments as it was when WriteOutFiles was last entered
  held,
  \* the controller thread: its position and the locals of the destructor
  dpc, closed, counter_short, counter_long, events_start,
  \* history: packets handed out, deletes per packet, packets given to
  \* ParseDocuments, chunk ids the router returned, fragments routed, chunk
  \* ids the router returned for the fragments of the packet being parsed
  nPackets, released, parsed, seenChunks, nFragments, packetChunks

VARIABLES
  \* the options: strax_fragment_payload_bytes, and the channels the channel
  \* map does not know
  fFragmentBytes, unknown_channels,
  \* the locals of ParseDocuments: the packet dp, the cursor, the per-channel
  \* clock state, the per-packet byte counts, the event's header, the channel
  \* loop's index and the locals of the fragment loop
  pkt, idx, clock_counters, last_times_seen, data_per_chan, ev, channel,
  pulse,
  \* the worker's counters
  fFailCounter, fDataPerChan, fEventsProcessed, fFragmentsProcessed,
  fFragmentSize,
  \* the controller's map that GetDataPerChan adds to
  ret,
  \* history: packets given to the decoder, calls of CheckError, the calls of
  \* AddFragmentToBuffer in order, the byte counts flushed to fDataPerChan
  nDecoded, nCheckError, routed, recorded

VARIABLES
  \* the workers that share the output tree, each with its position in
  \* WriteOutFiles and CreateMissing, its buckets still to write, its
  \* fMissingVerified, and (history) what it put into its final files
  peers

VARIABLES
  \* the crate-control handler of src/CControl_Handler.cc: its fields, and
  \* (history) the call made last and what it returned
  cc

decVars == <<fFragmentBytes, unknown_channels, pkt, idx, clock_counters,
             last_times_seen, data_per_chan, ev, channel, pulse,
             fFailCounter, fDataPerChan, fEventsProcessed,
             fFragmentsProcessed, fFragmentSize, ret,
             nDecoded, nCheckError, routed, recorded, peers, cc>>

workerObj == <<fActive, fRunning, fForceQuit, fBufferLength, fBytesProcessed>>
chunkVars == <<fFragments, fMissingVerified, fs>>
parseVars == <<b, bi, dp_size, smallest_latest_index_seen>>
wofVars == <<iterKeys, idx_to_clear, smallest_index_seen, end, held>>
dtorVars == <<dpc, closed, counter_short, counter_long, events_start>>
histVars == <<nPackets, released, parsed, seenChunks, nFragments,
             packetChunks>>

vars == <<fActive, fRunning, fForceQuit, fBufferLength, fBytesProcessed,
          fFragments, fMissingVerified, fs,
          pc, b, bi, dp_size, smallest_latest_index_seen,
          iterKeys, idx_to_clear, smallest_index_seen, end, held,
          dpc, closed, counter_short, counter_long, events_start,
          nPackets, released, parsed, seenChunks, nFragments, packetChunks,
          decVars>>

\* no packet
NoPacket == [bid |-> 0, clock_counter |-> Word(0), header_time |-> Word(0),
             buff |-> <<>>]
NoEvent == [words_in_event |-> 0, channel_mask |-> 0, channels_in_event |-> 0,
            board_fail |-> FALSE, event_time |-> Word(0),
            event_start_idx |-> 0]
NoPulse == [channel_words |-> 0, channel_time |-> Word(0),
            Time64 |-> FromInt(0, 4), baseline_ch |-> 0,
            cl |-> 0, samples_in_pulse |-> 0, index_in_pulse |-> 0,
            fragment_index |-> 0]

Channels == 0..(max_channels - 1)

\* the decoder before its first packet, for the options of a run
DecoderInit(payload_bytes, unknown) ==
  /\ fFragmentBytes = payload_bytes
  /\ unknown_channels = unknown
  /\ pkt = NoPacket
  /\ idx = 0
  /\ clock_counters = [c \in Channels |-> Word(0)]
  /\ last_times_seen = [c \in Channels |-> NoWord]
  /\ data_per_chan = <<>>
  /\ ev = NoEvent
  /\ channel = 0
  /\ pulse = NoPulse
  /\ fFailCounter = <<>>
  /\ fDataPerChan = <<>>
  /\ fEventsProcessed = 0
  /\ fFragmentsProcessed = 0
  /\ fFragmentSize = 0
  /\ ret = <<>>
  /\ nDecoded = 0
  /\ nCheckError = 0
  /\ routed = <<>>
  /\ recorded = <<>>

\* the state after the constructor and Initialize, before the worker thread
\* has run: fRunning and fBufferLength are not initialised by either
WorkerInit ==
  /\ fActive = TRUE
  /\ fRunning \in BOOLEAN
  /\ fForceQuit = FALSE
  /\ fBufferLength \in {0, 1}
  /\ fBytesProcessed = 0
  /\ fFragments = <<>>
  /\ fMissingVerified = 0
  /\ fs = [dirs |-> {}, files |-> <<>>]
  /\ pc = "start"
  /\ b = <<>>
  /\ bi = 0
  /\ dp_size = 0
  /\ smallest_latest_index_seen = -1
  /\ iterKeys = <<>>
  /\ idx_to_clear = <<>>
  /\ smallest_index_seen = 0
  /\ end = FALSE
  /\ held = <<>>
  /\ dpc = "d_idle"
  /\ closed = FALSE
  /\ counter_short = 0
  /\ counter_long = 0
  /\ events_start = 0
  /\ nPackets = 0
  /\ released = [p \in {} |-> 0]
  /\ parsed = {}
  /\ seenChunks = {}
  /\ nFragments = 0
  /\ packetChunks = {}

\* no other worker shares the output tree
NoPeers == <<>>

\* the process has no crate-control handler
NoHandler == <<>>

\* a run with the default payload size and a complete channel map
Init == DecoderInit(6, {}) /\ WorkerInit /\ peers = NoPeers /\ cc = NoHandler

-----------------------------------------------------------------------------
(* The worker thread: ReadAndInsertData *)

\* fThreadId = ...; fActive = fRunning = true; fBufferLength = 0;
WorkerStart ==
  /\ pc = "start"
  /\ UNCHANGED decVars
  /\ dpc # "d_done"
  /\ fActive' = TRUE
  /\ fRunning' = TRUE
  /\ fBufferLength' = 0
  /\ pc' = "loop"
  /\ UNCHANGED <<fForceQuit, fBytesProcessed, chunkVars, parseVars, wofVars,
                 dtorVars, histVars>>

\* ParseDocuments(dp) up to its outer loop: the locals of a new packet
BeginParse(dp, size) ==
  /\ dp_size' = size
  /\ smallest_latest_index_seen' = -1
  /\ packetChunks' = {}
  /\ parsed' = parsed \cup {dp}
  /\ pc' = "parse"

\* while(fActive == true) with GetData returning a batch of n packets; a
\* batch of one is also what buffer_type "single" does (lines 452-462)
GetData ==
  /\ pc = "loop"
  /\ UNCHANGED decVars
  /\ fActive
  /\ \E n \in 1..Min(MaxBatch, MaxPackets - nPackets) :
       /\ b' = [i \in 1..n |-> nPackets + i]
       /\ fBufferLength' = n
       /\ nPackets' = nPackets + n
       /\ released' = [p \in 1..(nPackets + n) |->
                         IF p <= nPackets THEN released[p] ELSE 0]
       /\ bi' = 1
       /\ \E size \in PacketSizes : BeginParse(nPackets + 1, size)
  /\ UNCHANGED <<fActive, fRunning, fForceQuit, fBytesProcessed, chunkVars,
                 wofVars, dtorVars, seenChunks, nFragments>>

\* GetData returns false: sleep_for(sleep_time)
GetDataFail ==
  /\ pc = "loop"
  /\ UNCHANGED decVars
  /\ fActive
  /\ pc' = "sleep"
  /\ UNCHANGED <<workerObj, chunkVars, parseVars, wofVars, dtorVars, histVars>>

Sleep ==
  /\ pc = "sleep"
  /\ UNCHANGED decVars
  /\ pc' = "loop"
  /\ UNCHANGED <<workerObj, chunkVars, parseVars, wofVars, dtorVars, histVars>>

\* the loop condition fails: go on to line 464
LoopExit ==
  /\ pc = "loop"
  /\ UNCHANGED decVars
  /\ ~fActive
  /\ pc' = "flush"
  /\ UNCHANGED <<workerObj, chunkVars, parseVars, wofVars, dtorVars, histVars>>

\* smallest_latest_index_seen after a waveform fragment went to chunk_id
\* (lines 362-366); GenerateArtificialDeadtime drops the router's result
SmallestAfter(smallest, chunk_id, dead) ==
  IF dead THEN smallest
  ELSE IF smallest = -1 \/ chunk_id < smallest THEN chunk_id ELSE smallest

\* one fragment of the packet is built and routed, then fForceQuit is read
\* (lines 370-375)
ParseFragmentOf(E) ==
  /\ pc = "parse"
  /\ UNCHANGED decVars
  /\ dp_size > 0
  /\ nFragments < MaxFragments
  /\ \E e \in E :
       /\ fFragments' = AddFragmentToBuffer(fFragments, e, e.t)
       /\ smallest_latest_index_seen' =
            SmallestAfter(smallest_latest_index_seen, ChunkId(e.t), e.dead)
       /\ seenChunks' = seenChunks \cup {ChunkId(e.t)}
       /\ packetChunks' = packetChunks \cup {ChunkId(e.t)}
  /\ nFragments' = nFragments + 1
  /\ pc' = IF fForceQuit THEN "post" ELSE "parse"
  /\ UNCHANGED <<workerObj, fMissingVerified, fs, b, bi, dp_size, wofVars,
                 dtorVars, nPackets, released, parsed>>

\* a fragment at any timestamp of the model
ParseFragment == ParseFragmentOf(Emissions)

\* a fragment of a run whose data all lies at the start of chunk 0
ParseFragmentStop == ParseFragmentOf(StopEmissions)

\* the outer loop ends: idx reached total_words or the terminator word
ParseEnd ==
  /\ pc = "parse"
  /\ UNCHANGED decVars
  /\ pc' = "post"
  /\ UNCHANGED <<workerObj, chunkVars, parseVars, wofVars, dtorVars, histVars>>

\* BeginWriteOutFiles with a loop that starts at the second bucket
BeginWriteOutFilesSkipFirst(threshold, isEnd) ==
  /\ iterKeys' = IF fFragments = <<>> THEN <<>>
                 ELSE Tail(SortedKeys(DOMAIN fFragments))
  /\ idx_to_clear' = <<>>
  /\ smallest_index_seen' = threshold
  /\ end' = isEnd
  /\ held' = fFragments
  /\ pc' = "wof_loop"

\* WriteOutFiles(smallest_index_seen, end) up to its loop
BeginWriteOutFiles(threshold, isEnd) ==
  /\ iterKeys' = SortedKeys(DOMAIN fFragments)
  /\ idx_to_clear' = <<>>
  /\ smallest_index_seen' = threshold
  /\ end' = isEnd
  /\ held' = fFragments
  /\ pc' = "wof_loop"

\* if(smallest_latest_index_seen != -1) WriteOutFiles(...) (lines 384-385)
AfterLoop ==
  /\ pc = "post"
  /\ UNCHANGED decVars
  /\ IF smallest_latest_index_seen # -1
     THEN BeginWriteOutFiles(smallest_latest_index_seen, FALSE)
     ELSE pc' = "afterparse" /\ UNCHANGED wofVars
  /\ UNCHANGED <<workerObj, chunkVars, parseVars, dtorVars, histVars>>

\* one iteration of WriteOutFiles' loop over fFragments (lines 483-535)
WriteBucket ==
  /\ pc = "wof_loop"
  /\ UNCHANGED decVars
  /\ iterKeys # <<>>
  /\ LET chunk_index == Head(iterKeys)
         idnrint == IdNr(chunk_index)
     IN IF KeepsBucket(idnrint, smallest_index_seen, end)
        THEN UNCHANGED <<fFragments, fMissingVerified, fs, idx_to_clear>>
        ELSE /\ fs' = CreateMissing(
                        PersistBucket(fs, chunk_index, fFragments[chunk_index]),
                        fMissingVerified, idnrint)
             /\ fMissingVerified' = MissingVerifiedAfter(fMissingVerified, idnrint)
             /\ fFragments' = [fFragments EXCEPT ![chunk_index] = NullBuffer]
             /\ idx_to_clear' = Append(idx_to_clear, chunk_index)
  /\ iterKeys' = Tail(iterKeys)
  /\ UNCHANGED <<workerObj, pc, parseVars, smallest_index_seen, end, held,
                 dtorVars, histVars>>

\* EraseCleared without its erase: the written buckets stay in the map
EraseClearedNone(frags, cleared) == frags

\* fFragments without the buckets of idx_to_clear (lines 537-539)
EraseCleared(frags, cleared) ==
  [k \in (DOMAIN frags) \ SeqToSet(cleared) |-> frags[k]]

\* the loop is over: erase what was written; return, or go on to the end block
EraseWritten ==
  /\ pc = "wof_loop"
  /\ UNCHANGED decVars
  /\ iterKeys = <<>>
  /\ fFragments' = EraseCleared(fFragments, idx_to_clear)
  /\ idx_to_clear' = <<>>
  /\ pc' = IF end THEN "wof_end" ELSE "afterparse"
  /\ UNCHANGED <<workerObj, fMissingVerified, fs, parseVars, iterKeys,
                 smallest_index_seen, end, held, dtorVars, histVars>>

\* if(end){...}: drop what is left, create THE_END and the marker file
WriteTheEnd ==
  /\ pc = "wof_end"
  /\ UNCHANGED decVars
  /\ fFragments' = <<>>
  /\ fs' = WriteFile(MkdirIfMissing(fs, STR_THE_END),
                     <<STR_THE_END, FileName>>, "...my only friend")
  /\ pc' = "finish"
  /\ UNCHANGED <<workerObj, fMissingVerified, parseVars, wofVars, dtorVars,
                 histVars>>

\* delete of one packet
Delete(rel, dp) == [rel EXCEPT ![dp] = @ + 1]

\* DeleteRemaining without its deletes: the batch is only cleared
DeleteRemainingNone(rel, batch, i) == rel

\* the deletes of line 445: every packet of the batch that is not nullptr
RECURSIVE DeleteRemaining(_, _, _)
DeleteRemaining(rel, batch, i) ==
  IF i > Len(batch) THEN rel
  ELSE DeleteRemaining(IF batch[i] # nullptr THEN Delete(rel, batch[i]) ELSE rel,
                       batch, i + 1)

\* ParseDocuments returns (lines 387-389), then the rest of the batch loop's
\* body (lines 441-443)
AfterParse ==
  /\ pc = "afterparse"
  /\ UNCHANGED decVars
  /\ fBytesProcessed' = fBytesProcessed + dp_size
  /\ released' = Delete(released, b[bi])
  /\ fBufferLength' = fBufferLength - 1
  /\ IF fForceQuit
     THEN /\ b' = [b EXCEPT ![bi] = nullptr]
          /\ pc' = "drop"
          /\ UNCHANGED <<bi, dp_size, smallest_latest_index_seen, parsed,
                         packetChunks>>
     ELSE IF bi < Len(b)
     THEN /\ b' = [b EXCEPT ![bi] = nullptr]
          /\ bi' = bi + 1
          /\ \E size \in PacketSizes : BeginParse(b[bi + 1], size)
     ELSE /\ b' = <<>>
          /\ pc' = "loop"
          /\ UNCHANGED <<bi, dp_size, smallest_latest_index_seen, parsed,
                         packetChunks>>
  /\ UNCHANGED <<fActive, fRunning, fForceQuit, chunkVars, wofVars, dtorVars,
                 nPackets, seenChunks, nFragments>>

\* if (fForceQuit) for (auto& dp_ : b) if (dp_ != nullptr) delete dp_;
\* b.clear();
DropBatch ==
  /\ pc = "drop"
  /\ UNCHANGED decVars
  /\ released' = DeleteRemaining(released, b, 1)
  /\ b' = <<>>
  /\ pc' = "loop"
  /\ UNCHANGED <<workerObj, chunkVars, bi, dp_size, smallest_latest_index_seen,
                 wofVars, dtorVars, nPackets, parsed, seenChunks, nFragments,
                 packetChunks>>

\* if (fBytesProcessed > 0) WriteOutFiles(1000000, true);
Flush ==
  /\ pc = "flush"
  /\ UNCHANGED decVars
  /\ IF fBytesProcessed > 0
     THEN BeginWriteOutFiles(EndThreshold, TRUE)
     ELSE pc' = "finish" /\ UNCHANGED wofVars
  /\ UNCHANGED <<workerObj, chunkVars, parseVars, dtorVars, histVars>>

\* fRunning = false; return 0;
Finish ==
  /\ pc = "finish"
  /\ UNCHANGED decVars
  /\ fRunning' = FALSE
  /\ pc' = "done"
  /\ UNCHANGED <<fActive, fForceQuit, fBufferLength, fBytesProcessed, chunkVars,
                 parseVars, wofVars, dtorVars, histVars>>

\* the worker's steps that do not depend on fForceQuit being set
WorkerRun ==
  \/ WorkerStart \/ GetData \/ GetDataFail \/ Sleep \/ LoopExit
  \/ ParseEnd \/ AfterLoop
  \/ WriteBucket \/ EraseWritten \/ WriteTheEnd
  \/ AfterParse \/ Flush \/ Finish

-----------------------------------------------------------------------------
(* The controller thread: Close and the destructor *)

\* Close(ret): fActive = false
Close ==
  /\ dpc = "d_idle"
  /\ UNCHANGED decVars
  /\ ~closed
  /\ fActive' = FALSE
  /\ closed' = TRUE
  /\ UNCHANGED <<fRunning, fForceQuit, fBufferLength, fBytesProcessed,
                 chunkVars, pc, parseVars, wofVars, dpc, counter_short,
                 counter_long, events_start, histVars>>

\* ~StraxInserter up to the do loop (lines 39-43)
DtorBegin ==
  /\ dpc = "d_idle"
  /\ UNCHANGED decVars
  /\ fActive' = FALSE
  /\ counter_short' = 0
  /\ counter_long' = 0
  /\ events_start' = fBufferLength
  /\ dpc' = "d_do"
  /\ UNCHANGED <<fRunning, fForceQuit, fBufferLength, fBytesProcessed,
                 chunkVars, pc, parseVars, wofVars, closed, histVars>>

\* do{ events_start = fBufferLength.load();
DtorDo ==
  /\ dpc = "d_do"
  /\ UNCHANGED decVars
  /\ events_start' = fBufferLength
  /\ dpc' = "d_short"
  /\ UNCHANGED <<workerObj, chunkVars, pc, parseVars, wofVars, closed,
                 counter_short, counter_long, histVars>>

\* while (fRunning && counter_short++ < 500) sleep_for(10 ms);
DtorShortWait ==
  /\ dpc = "d_short"
  /\ UNCHANGED decVars
  /\ IF fRunning
     THEN /\ counter_short' = counter_short + 1
          /\ dpc' = IF counter_short < MaxShortWait THEN "d_short" ELSE "d_while"
     ELSE /\ dpc' = "d_while"
          /\ UNCHANGED counter_short
  /\ UNCHANGED <<workerObj, chunkVars, pc, parseVars, wofVars, closed,
                 counter_long, events_start, histVars>>

\* counter_short = 0; } while (fRunning && fBufferLength.load() > 0 &&
\*   events_start > fBufferLength.load() && counter_long++ < 10);
DtorWhile ==
  /\ dpc = "d_while"
  /\ UNCHANGED decVars
  /\ counter_short' = 0
  /\ IF fRunning /\ fBufferLength > 0 /\ events_start > fBufferLength
     THEN /\ counter_long' = counter_long + 1
          /\ dpc' = IF counter_long < MaxLongWait THEN "d_do" ELSE "d_force"
     ELSE /\ dpc' = "d_force"
          /\ UNCHANGED counter_long
  /\ UNCHANGED <<workerObj, chunkVars, pc, parseVars, wofVars, closed,
                 events_start, histVars>>

\* if (fRunning) { fForceQuit = true; sleep_for(2 s); }
DtorForce ==
  /\ dpc = "d_force"
  /\ UNCHANGED decVars
  /\ fForceQuit' = (fForceQuit \/ fRunning)
  /\ dpc' = "d_still"
  /\ UNCHANGED <<fActive, fRunning, fBufferLength, fBytesProcessed, chunkVars,
                 pc, parseVars, wofVars, closed, counter_short, counter_long,
                 events_start, histVars>>

\* while (fRunning) { log; sleep_for(2 s); } and then SaveBenchmarks
DtorStillWaiting ==
  /\ dpc = "d_still"
  /\ UNCHANGED decVars
  /\ dpc' = IF fRunning THEN "d_still" ELSE "d_done"
  /\ UNCHANGED <<workerObj, chunkVars, pc, parseVars, wofVars, closed,
                 counter_short, counter_long, events_start, histVars>>

Destructor ==
  \/ DtorBegin \/ DtorDo \/ DtorShortWait \/ DtorWhile \/ DtorForce
  \/ DtorStillWaiting

-----------------------------------------------------------------------------
(* The worker thread inside ParseDocuments, word by word.  The call of       *)
(* WriteOutFiles at its end (lines 384-385) and the delete (line 389) are    *)
(* the actions AfterLoop to AfterParse above.                                *)

\* what the decoder's steps leave alone
pipeVars == <<fActive, fRunning, fBufferLength, fMissingVerified, fs,
              b, bi, dp_size, wofVars, dtorVars, histVars>>
optVars == <<fFragmentBytes, unknown_channels, peers, cc>>

\* map[key] += v on a std::map<int, int>
AddTo(map, key, v) ==
  IF key \in DOMAIN map THEN [map EXCEPT ![key] = @ + v]
  ELSE (key :> v) @@ map

total_words == Len(pkt.buff)

\* GetData hands the worker a packet of P, at most max of them in a run;
\* ParseDocuments(dp) up to line 170
DecGetDataOf(P, max) ==
  /\ pc = "loop"
  /\ fActive
  /\ nDecoded < max
  /\ \E p \in P :
       /\ pkt' = p
       /\ clock_counters' = [c \in Channels |-> p.clock_counter]
  /\ last_times_seen' = [c \in Channels |-> NoWord]
  /\ idx' = 0
  /\ data_per_chan' = <<>>
  /\ smallest_latest_index_seen' = -1
  /\ nDecoded' = nDecoded + 1
  /\ pc' = "pd_while"
  /\ UNCHANGED <<pipeVars, optVars, fForceQuit, fBytesProcessed, fFragments,
                 ev, channel, pulse, fFailCounter, fDataPerChan,
                 fEventsProcessed, fFragmentsProcessed, fFragmentSize, ret,
                 nCheckError, routed, recorded>>

\* any packet of the model
DecGetData == DecGetDataOf(DataPackets, MaxDecPackets)

\* the packet during which the destructor runs
DecGetDataLast == DecGetDataOf(DataPackets, MaxStopPackets)

\* a packet with data of two channels, of one, or with a lost channel
DecGetDataDrain ==
  DecGetDataOf({PktTwoChannels, PktBoardFail, PktStrayDpp}, MaxDrainPackets)

\* the outer loop's condition (line 171)
InPacket == idx < total_words /\ pkt.buff[idx + 1] # NoWord

\* a word that is not an event header: idx++
DecSkipWord ==
  /\ pc = "pd_while"
  /\ InPacket
  /\ Top4(pkt.buff[idx + 1]) # 10
  /\ idx' = idx + 1
  /\ UNCHANGED <<pipeVars, optVars, fForceQuit, fBytesProcessed, fFragments,
                 smallest_latest_index_seen, pc, pkt, clock_counters,
                 last_times_seen, data_per_chan, ev, channel, pulse,
                 fFailCounter, fDataPerChan, fEventsProcessed,
                 fFragmentsProcessed, fFragmentSize, ret, nDecoded,
                 nCheckError, routed, recorded>>

\* an event header with the board-fail bit (lines 194-201)
DecBoardFail ==
  /\ pc = "pd_while"
  /\ InPacket
  /\ Top4(pkt.buff[idx + 1]) = 10
  /\ \E oob \in OobChoices(total_words, idx, 1..3) :
       LET h == EventHeader(fFmt[pkt.bid], pkt.buff, idx, oob)
       IN /\ h.board_fail
          /\ ev' = h
  /\ fEventsProcessed' = fEventsProcessed + 1
  /\ nCheckError' = nCheckError + 1
  /\ fFailCounter' = AddTo(fFailCounter, pkt.bid, 1)
  /\ idx' = idx + event_header_words
  /\ UNCHANGED <<pipeVars, optVars, fForceQuit, fBytesProcessed, fFragments,
                 smallest_latest_index_seen, pc, pkt, clock_counters,
                 last_times_seen, data_per_chan, channel, pulse,
                 fDataPerChan, fFragmentsProcessed, fFragmentSize, ret,
                 nDecoded, routed, recorded>>

\* an event header without it: on to the channel loop (lines 202-205)
DecEventHeader ==
  /\ pc = "pd_while"
  /\ InPacket
  /\ Top4(pkt.buff[idx + 1]) = 10
  /\ \E oob \in OobChoices(total_words, idx, 1..3) :
       LET h == EventHeader(fFmt[pkt.bid], pkt.buff, idx, oob)
       IN /\ ~h.board_fail
          /\ ev' = h
  /\ fEventsProcessed' = fEventsProcessed + 1
  /\ idx' = idx + event_header_words
  /\ channel' = 0
  /\ pc' = "pd_channel"
  /\ UNCHANGED <<pipeVars, optVars, fForceQuit, fBytesProcessed, fFragments,
                 smallest_latest_index_seen, pkt, clock_counters,
                 last_times_seen, data_per_chan, pulse, fFailCounter,
                 fDataPerChan, fFragmentsProcessed, fFragmentSize, ret,
                 nDecoded, nCheckError, routed, recorded>>

\* the outer loop ends: the end of the words, or the terminator word
DecWhileEnd ==
  /\ pc = "pd_while"
  /\ ~InPacket
  /\ pc' = "pd_flush"
  /\ UNCHANGED <<pipeVars, optVars, fForceQuit, fBytesProcessed, fFragments,
                 smallest_latest_index_seen, pkt, idx, clock_counters,
                 last_times_seen, data_per_chan, ev, channel, pulse,
                 fFailCounter, fDataPerChan, fEventsProcessed,
                 fFragmentsProcessed, fFragmentSize, ret, nDecoded,
                 nCheckError, routed, recorded>>

\* (channel_mask >> c) & 1
InMask(mask, c) == (mask \div (2 ^ c)) % 2 = 1

\* the next channel of the event from `channel` on, max_channels if none
NextChannel ==
  IF \E c \in Channels : c >= channel /\ InMask(ev.channel_mask, c)
  THEN CHOOSE c \in Channels :
         /\ c >= channel /\ InMask(ev.channel_mask, c)
         /\ \A d \in Channels :
              d >= channel /\ InMask(ev.channel_mask, d) => c <= d
  ELSE max_channels

\* where the worker goes on after the channel loop: if (fForceQuit) break
AfterEvent == IF fForceQuit THEN "pd_flush" ELSE "pd_while"

\* ContinueChannelLoop: the next channel of the event instead of the break
ContinueChannelLoop(c) == [pc |-> "pd_channel", channel |-> c + 1]

\* break; // loop over channels (line 297): the loop's index stays, the worker
\* is behind the loop
BreakChannelLoop(c) == [pc |-> AfterEvent, channel |-> c]

\* the words of a channel header that the decoder reads, from idx
ChannelHeaderReads ==
  IF fFmt[pkt.bid].channel_header_words = 0 THEN {}
  ELSE IF fFmt[pkt.bid].channel_time_msb_idx = 2 THEN 0..2 ELSE 0..1

\* the channel that NextChannel names, decoded
ThisChannel(oob) ==
  DecodeChannel(pkt, idx, ev, NextChannel, clock_counters, last_times_seen,
                oob)

\* the call AddFragmentToBuffer(fragment, timestamp)
Route(fragment, timestamp, what) ==
  /\ fFragments' = AddFragmentToBuffer64(fFragments, fragment, timestamp)
  /\ fFragmentSize' = fFragmentSize + Len(fragment)
  /\ routed' = Append(routed, [fragment |-> fragment,
                               timestamp |-> timestamp] @@ what)

\* the channel loop has gone through the mask
DecChannelsEnd ==
  /\ pc = "pd_channel"
  /\ NextChannel = max_channels
  /\ pc' = AfterEvent
  /\ UNCHANGED <<pipeVars, optVars, fForceQuit, fBytesProcessed, fFragments,
                 smallest_latest_index_seen, pkt, idx, clock_counters,
                 last_times_seen, data_per_chan, ev, channel, pulse,
                 fFailCounter, fDataPerChan, fEventsProcessed,
                 fFragmentsProcessed, fFragmentSize, ret, nDecoded,
                 nCheckError, routed, recorded>>

\* a channel header that asks for more words than the event has left: skip
\* it and leave the event (lines 219-224)
DecChannelGarbled ==
  /\ pc = "pd_channel"
  /\ NextChannel < max_channels
  /\ \E oob \in OobChoices(total_words, idx, ChannelHeaderReads) :
       /\ ThisChannel(oob).kind = "garbled"
       /\ idx' = ThisChannel(oob).idx
  /\ pc' = AfterEvent
  /\ UNCHANGED <<pipeVars, optVars, fForceQuit, fBytesProcessed, fFragments,
                 smallest_latest_index_seen, pkt, clock_counters,
                 last_times_seen, data_per_chan, ev, channel, pulse,
                 fFailCounter, fDataPerChan, fEventsProcessed,
                 fFragmentsProcessed, fFragmentSize, ret, nDecoded,
                 nCheckError, routed, recorded>>

\* a channel with no payload: on to the next channel (lines 225-230)
DecChannelEmpty ==
  /\ pc = "pd_channel"
  /\ NextChannel < max_channels
  /\ \E oob \in OobChoices(total_words, idx, ChannelHeaderReads) :
       /\ ThisChannel(oob).kind = "empty"
       /\ idx' = ThisChannel(oob).idx
  /\ channel' = NextChannel + 1
  /\ UNCHANGED <<pipeVars, optVars, fForceQuit, fBytesProcessed, fFragments,
                 smallest_latest_index_seen, pc, pkt, clock_counters,
                 last_times_seen, data_per_chan, ev, pulse,
                 fFailCounter, fDataPerChan, fEventsProcessed,
                 fFragmentsProcessed, fFragmentSize, ret, nDecoded,
                 nCheckError, routed, recorded>>

\* the sanity check fails: one artificial dead-time fragment, and the event is
\* left (lines 295-298)
DecChannelWhoops ==
  /\ pc = "pd_channel"
  /\ NextChannel < max_channels
  /\ \E oob \in OobChoices(total_words, idx, ChannelHeaderReads) :
       LET r == ThisChannel(oob)
       IN /\ r.kind = "whoops"
          /\ idx' = r.idx
          /\ clock_counters' = [clock_counters EXCEPT ![NextChannel] = r.ctr]
          /\ last_times_seen' = [last_times_seen EXCEPT ![NextChannel] = r.last]
          /\ Route(DeadtimeFragment(r.Time64, pkt.bid, fFragmentBytes),
                   r.Time64,
                   [dead |-> TRUE, packet |-> nDecoded, bid |-> pkt.bid,
                    event |-> ev.event_start_idx, channel |-> NextChannel,
                    index |-> 0, channel_time |-> r.channel_time,
                    Time64 |-> r.Time64, samples_in_pulse |-> 0])
  /\ channel' = BreakChannelLoop(NextChannel).channel
  /\ pc' = BreakChannelLoop(NextChannel).pc
  /\ UNCHANGED <<pipeVars, optVars, fForceQuit, fBytesProcessed,
                 smallest_latest_index_seen, pkt, data_per_chan, ev, pulse,
                 fFailCounter, fDataPerChan, fEventsProcessed,
                 fFragmentsProcessed, ret, nDecoded, nCheckError, recorded>>

\* the channel's locals at the head of the fragment loop (lines 304-312)
PulseOf(r, cl) ==
  [channel_words |-> ToInt(r.channel_words),
   channel_time |-> r.channel_time, Time64 |-> r.Time64,
   baseline_ch |-> r.baseline_ch, cl |-> cl,
   samples_in_pulse |-> ToInt(r.channel_words) * 2,
   index_in_pulse |-> 0, fragment_index |-> 0]

\* a channel with data that the channel map does not know: data_per_chan is
\* updated and ParseDocuments throws (lines 311-315)
DecChannelThrow ==
  /\ pc = "pd_channel"
  /\ NextChannel < max_channels
  /\ GetChannel(unknown_channels, pkt.bid, NextChannel) = -1
  /\ \E oob \in OobChoices(total_words, idx, ChannelHeaderReads) :
       LET r == ThisChannel(oob)
       IN /\ r.kind = "pulse"
          /\ idx' = r.idx
          /\ clock_counters' = [clock_counters EXCEPT ![NextChannel] = r.ctr]
          /\ last_times_seen' = [last_times_seen EXCEPT ![NextChannel] = r.last]
          /\ pulse' = PulseOf(r, -1)
          /\ data_per_chan' = AddTo(data_per_chan, -1,
                                    ToInt(r.channel_words) * 4)
  /\ channel' = NextChannel
  /\ pc' = "pd_throw"
  /\ UNCHANGED <<pipeVars, optVars, fForceQuit, fBytesProcessed, fFragments,
                 smallest_latest_index_seen, pkt, ev,
                 fFailCounter, fDataPerChan, fEventsProcessed,
                 fFragmentsProcessed, fFragmentSize, ret, nDecoded,
                 nCheckError, routed, recorded>>

\* a channel with data: on to the fragment loop (lines 304-318)
DecChannelPulse ==
  /\ pc = "pd_channel"
  /\ NextChannel < max_channels
  /\ GetChannel(unknown_channels, pkt.bid, NextChannel) # -1
  /\ \E oob \in OobChoices(total_words, idx, ChannelHeaderReads) :
       LET r == ThisChannel(oob)
           cl == GetChannel(unknown_channels, pkt.bid, NextChannel)
       IN /\ r.kind = "pulse"
          /\ idx' = r.idx
          /\ clock_counters' = [clock_counters EXCEPT ![NextChannel] = r.ctr]
          /\ last_times_seen' = [last_times_seen EXCEPT ![NextChannel] = r.last]
          /\ pulse' = PulseOf(r, cl)
          /\ data_per_chan' = AddTo(data_per_chan, cl,
                                    ToInt(r.channel_words) * 4)
  /\ channel' = NextChannel
  /\ pc' = "pd_pulse"
  /\ UNCHANGED <<pipeVars, optVars, fForceQuit, fBytesProcessed, fFragments,
                 smallest_latest_index_seen, pkt, ev,
                 fFailCounter, fDataPerChan, fEventsProcessed,
                 fFragmentsProcessed, fFragmentSize, ret, nDecoded,
                 nCheckError, routed, recorded>>

\* one pass of the fragment loop (lines 318-371), and the way out of the
\* loops when fForceQuit is set (lines 370-375)
DecFragment ==
  /\ pc = "pd_pulse"
  /\ pulse.index_in_pulse < pulse.samples_in_pulse
  /\ LET sw == fFmt[pkt.bid].ns_per_sample
         fragment_samples == fFragmentBytes \div 2
         plan == FragmentPlan(pulse.Time64, sw, fragment_samples,
                              pulse.samples_in_pulse, pulse.index_in_pulse,
                              pulse.fragment_index)
         fragment == WaveformFragment(plan, sw, pulse.cl,
                       pulse.samples_in_pulse, pulse.fragment_index,
                       pulse.baseline_ch, pkt.buff, idx * 2,
                       pulse.index_in_pulse, fFragmentBytes)
     IN /\ Route(fragment, plan.time_this_fragment,
                 [dead |-> FALSE, packet |-> nDecoded, bid |-> pkt.bid,
                  event |-> ev.event_start_idx, channel |-> channel,
                  index |-> pulse.fragment_index,
                  channel_time |-> pulse.channel_time,
                  Time64 |-> pulse.Time64,
                  samples_in_pulse |-> pulse.samples_in_pulse])
        /\ smallest_latest_index_seen' =
             SmallestAfter(smallest_latest_index_seen,
                           ChunkId64(plan.time_this_fragment), FALSE)
        /\ pulse' = [pulse EXCEPT
                       !.fragment_index = (@ + 1) % Limb,
                       !.index_in_pulse = plan.max_sample]
  /\ fFragmentsProcessed' = fFragmentsProcessed + 1
  /\ IF fForceQuit
     THEN idx' = idx + pulse.channel_words /\ pc' = "pd_flush"
     ELSE UNCHANGED <<idx, pc>>
  /\ UNCHANGED <<pipeVars, optVars, fForceQuit, fBytesProcessed, pkt,
                 clock_counters, last_times_seen, data_per_chan, ev, channel,
                 fFailCounter, fDataPerChan, fEventsProcessed, ret, nDecoded,
                 nCheckError, recorded>>

\* the fragment loop ends: idx += channel_words, and the next channel
DecPulseEnd ==
  /\ pc = "pd_pulse"
  /\ pulse.index_in_pulse >= pulse.samples_in_pulse
  /\ idx' = idx + pulse.channel_words
  /\ IF fForceQuit
     THEN pc' = "pd_flush" /\ UNCHANGED channel
     ELSE pc' = "pd_channel" /\ channel' = channel + 1
  /\ UNCHANGED <<pipeVars, optVars, fForceQuit, fBytesProcessed, fFragments,
                 smallest_latest_index_seen, pkt, clock_counters,
                 last_times_seen, data_per_chan, ev, pulse,
                 fFailCounter, fDataPerChan, fEventsProcessed,
                 fFragmentsProcessed, fFragmentSize, ret, nDecoded,
                 nCheckError, routed, recorded>>

\* for (auto& p : from) into[p.first] += p.second;
RECURSIVE AddAll(_, _, _)
AddAll(into, from, keys) ==
  IF keys = {} THEN into
  ELSE LET k == CHOOSE x \in keys : TRUE
       IN AddAll(AddTo(into, k, from[k]), from, keys \ {k})

\* the packet's byte counts go to fDataPerChan under fDPC_mutex (lines
\* 380-382); fBytesProcessed += dp->size; back in ReadAndInsertData
DecDataPerChan ==
  /\ pc = "pd_flush"
  /\ fDataPerChan' = AddAll(fDataPerChan, data_per_chan, DOMAIN data_per_chan)
  /\ recorded' = AddAll(recorded, data_per_chan, DOMAIN data_per_chan)
  /\ fBytesProcessed' = fBytesProcessed + 4 * total_words
  /\ pc' = "loop"
  /\ UNCHANGED <<pipeVars, optVars, fForceQuit, fFragments,
                 smallest_latest_index_seen, pkt, idx, clock_counters,
                 last_times_seen, data_per_chan, ev, channel, pulse,
                 fFailCounter, fEventsProcessed, fFragmentsProcessed,
                 fFragmentSize, ret, nDecoded, nCheckError, routed>>

\* the steps of ParseDocuments on the packet it was given
DecodePacket ==
  \/ DecSkipWord \/ DecBoardFail \/ DecEventHeader
  \/ DecWhileEnd \/ DecChannelsEnd \/ DecChannelGarbled \/ DecChannelEmpty
  \/ DecChannelWhoops \/ DecChannelThrow \/ DecChannelPulse
  \/ DecFragment \/ DecPulseEnd \/ DecDataPerChan

\* DrainedKept: the counts stay where they were
DrainedKept(map) == map

\* pair.second = 0 for every pair of the map (line 122)
Drained(map) == [k \in DOMAIN map |-> 0]

\* GetDataPerChan(ret), called by the controller: the counts move to ret
\* under fDPC_mutex
GetDataPerChan ==
  /\ dpc = "d_idle"
  /\ IF ~fActive THEN UNCHANGED <<ret, fDataPerChan>>
     ELSE /\ ret' = AddAll(ret, fDataPerChan, DOMAIN fDataPerChan)
          /\ fDataPerChan' = Drained(fDataPerChan)
  /\ UNCHANGED <<workerObj, chunkVars, pc, parseVars, wofVars, dtorVars,
                 histVars, optVars, pkt, idx, clock_counters, last_times_seen,
                 data_per_chan, ev, channel, pulse, fFailCounter,
                 fEventsProcessed, fFragmentsProcessed, fFragmentSize,
                 nDecoded, nCheckError, routed, recorded>>

-----------------------------------------------------------------------------
(* Workers that share the output tree: WriteOutFiles' loop body and        *)
(* CreateMissing, one filesystem call at a time                            *)

Workers == {1, 2}

\* FileNameShared: every worker writes the same file name
FileNameShared(w) == <<FileName, 0>>

\* fHostname + "_" + the thread id of worker w (lines 580-586)
FileNameOf(w) == <<FileName, w>>

GetFilePathOf(w, id, temp) == <<GetDirectoryPath(id, temp), FileNameOf(w)>>

\* the bucket names of the chunks up to MaxPeerChunk
PeerBuckets ==
  UNION {{GetStringFormat(k), GetStringFormat(k) \o STR_post}
           \cup (IF k > 0 THEN {GetStringFormat(k) \o STR_pre} ELSE {})
         : k \in 0..MaxPeerChunk}

\* the keys of a worker's fFragments that a flush writes, in the map's order
PeerKeys ==
  {<<k>> : k \in PeerBuckets}
    \cup {<<q[1], q[2]>> :
            q \in {r \in PeerBuckets \X PeerBuckets : StrLess(r[1], r[2])}}

\* a worker at the head of WriteOutFiles' loop
PeerStart(keys) ==
  [pc |-> "wof_next", keys |-> keys, x |-> 0, blk |-> 0,
   fMissingVerified |-> 0, mine |-> <<>>]

\* the compressed buffer of worker w
PeerData(w) == Compress(<<w>>)

\* the bucket the worker is writing
PeerKey(w) == peers[w].keys[1]

\* the three names of CreateMissing's loop body for x
BlockName(x, blk) ==
  IF blk = 0 THEN GetStringFormat(x)
  ELSE IF blk = 1 THEN GetStringFormat(x) \o STR_pre
  ELSE GetStringFormat(x) \o STR_post

\* the worker's locals after one of the three blocks
AfterBlock(p) ==
  IF p.blk = 2 THEN [p EXCEPT !.x = @ + 1, !.blk = 0, !.pc = "cm_loop"]
  ELSE [p EXCEPT !.blk = @ + 1, !.pc = "cm_exists_file"]

\* what a step of such a worker leaves alone
peerRest == <<workerObj, fFragments, fMissingVerified, pc, parseVars,
              wofVars, dtorVars, histVars, fFragmentBytes,
              unknown_channels, pkt, idx, clock_counters, last_times_seen,
              data_per_chan, ev, channel, pulse, fFailCounter,
              fDataPerChan, fEventsProcessed, fFragmentsProcessed,
              fFragmentSize, ret, nDecoded, nCheckError, routed, recorded,
              cc>>

PeerGoes(w, to) ==
  /\ peers' = [peers EXCEPT ![w].pc = to]
  /\ UNCHANGED fs

\* for (auto& iter : fFragments): the next bucket
PeerBegin(w) ==
  /\ peers[w].pc = "wof_next"
  /\ UNCHANGED peerRest
  /\ peers[w].keys # <<>>
  /\ PeerGoes(w, "wof_exists_temp")

\* the loop is through
PeerEnd(w) ==
  /\ peers[w].pc = "wof_next"
  /\ UNCHANGED peerRest
  /\ peers[w].keys = <<>>
  /\ PeerGoes(w, "done")

\* if(!fs::exists(GetDirectoryPath(chunk_index, true)))  (line 492)
PeerExistsTemp(w) ==
  /\ peers[w].pc = "wof_exists_temp"
  /\ UNCHANGED peerRest
  /\ PeerGoes(w, IF GetDirectoryPath(PeerKey(w), TRUE) \in fs.dirs
                 THEN "wof_write" ELSE "wof_mkdir_temp")

\* fs::create_directory(GetDirectoryPath(chunk_index, true)): nothing
\* happens when the directory is there by now (line 493)
PeerMkdirTemp(w) ==
  /\ peers[w].pc = "wof_mkdir_temp"
  /\ UNCHANGED peerRest
  /\ fs' = MkdirIfMissing(fs, GetDirectoryPath(PeerKey(w), TRUE))
  /\ peers' = [peers EXCEPT ![w].pc = "wof_write"]

\* std::ofstream writefile(GetFilePath(chunk_index, true)); write; close
\* (lines 520-523)
PeerWrite(w) ==
  /\ peers[w].pc = "wof_write"
  /\ UNCHANGED peerRest
  /\ fs' = WriteFile(fs, GetFilePathOf(w, PeerKey(w), TRUE), PeerData(w))
  /\ peers' = [peers EXCEPT ![w].pc = "wof_exists_dir"]

\* if(!fs::exists(GetDirectoryPath(chunk_index, false)))  (line 526)
PeerExistsDir(w) ==
  /\ peers[w].pc = "wof_exists_dir"
  /\ UNCHANGED peerRest
  /\ PeerGoes(w, IF GetDirectoryPath(PeerKey(w), FALSE) \in fs.dirs
                 THEN "wof_rename" ELSE "wof_mkdir_dir")

\* fs::create_directory(GetDirectoryPath(chunk_index, false))  (line 527)
PeerMkdirDir(w) ==
  /\ peers[w].pc = "wof_mkdir_dir"
  /\ UNCHANGED peerRest
  /\ fs' = MkdirIfMissing(fs, GetDirectoryPath(PeerKey(w), FALSE))
  /\ peers' = [peers EXCEPT ![w].pc = "wof_rename"]

\* fs::rename(temp file, final file), then CreateMissing(idnrint) begins with
\* x = fMissingVerified (lines 528-533, 595)
PeerRename(w) ==
  /\ peers[w].pc = "wof_rename"
  /\ UNCHANGED peerRest
  /\ fs' = Rename(fs, GetFilePathOf(w, PeerKey(w), TRUE),
                  GetFilePathOf(w, PeerKey(w), FALSE))
  /\ peers' = [peers EXCEPT
                 ![w].mine = (PeerKey(w) :> PeerData(w)) @@ @,
                 ![w].x = peers[w].fMissingVerified,
                 ![w].blk = 0,
                 ![w].pc = "cm_loop"]

\* for(unsigned int x=fMissingVerified; x<back_from_id; x++), and
\* fMissingVerified = back_from_id behind the loop (lines 595, 621)
PeerCmLoop(w) ==
  /\ peers[w].pc = "cm_loop"
  /\ UNCHANGED peerRest
  /\ IF peers[w].x < IdNr(PeerKey(w))
     THEN peers' = [peers EXCEPT ![w].pc = "cm_exists_file"]
     ELSE peers' = [peers EXCEPT
                      ![w].fMissingVerified =
                        MissingVerifiedAfter(@, IdNr(PeerKey(w))),
                      ![w].keys = Tail(@),
                      ![w].pc = "wof_next"]
  /\ UNCHANGED fs

\* if(!fs::exists(GetFilePath(name, false))), for _pre after x != 0 (lines
\* 599, 605, 612)
PeerCmExistsFile(w) ==
  /\ peers[w].pc = "cm_exists_file"
  /\ UNCHANGED peerRest
  /\ LET p == peers[w]
         name == BlockName(p.x, p.blk)
     IN peers' = [peers EXCEPT ![w] =
          IF \/ p.blk = 1 /\ p.x = 0
             \/ FileExists(fs, GetFilePathOf(w, name, FALSE))
          THEN AfterBlock(p)
          ELSE [p EXCEPT !.pc = "cm_exists_dir"]]
  /\ UNCHANGED fs

\* if(!fs::exists(GetDirectoryPath(name, false)))  (lines 600, 606, 613)
PeerCmExistsDir(w) ==
  /\ peers[w].pc = "cm_exists_dir"
  /\ UNCHANGED peerRest
  /\ PeerGoes(w, IF GetDirectoryPath(BlockName(peers[w].x, peers[w].blk),
                                     FALSE) \in fs.dirs
                 THEN "cm_open" ELSE "cm_mkdir")

\* fs::create_directory(GetDirectoryPath(name, false))  (lines 601, 607, 614)
PeerCmMkdir(w) ==
  /\ peers[w].pc = "cm_mkdir"
  /\ UNCHANGED peerRest
  /\ fs' = MkdirIfMissing(fs, GetDirectoryPath(
                                BlockName(peers[w].x, peers[w].blk), FALSE))
  /\ peers' = [peers EXCEPT ![w].pc = "cm_open"]

\* std::ofstream o; o.open(GetFilePath(name, false)); o.close();
PeerCmOpen(w) ==
  /\ peers[w].pc = "cm_open"
  /\ UNCHANGED peerRest
  /\ LET p == peers[w]
         name == BlockName(p.x, p.blk)
     IN /\ fs' = WriteFile(fs, GetFilePathOf(w, name, FALSE), EmptyFile)
        /\ peers' = [peers EXCEPT ![w] =
             AfterBlock([p EXCEPT !.mine = (name :> EmptyFile) @@ @])]

\* a step of worker w in WriteOutFiles or CreateMissing
PeerRun(w) ==
  \/ PeerBegin(w) \/ PeerEnd(w)
  \/ PeerExistsTemp(w) \/ PeerMkdirTemp(w) \/ PeerWrite(w)
  \/ PeerExistsDir(w) \/ PeerMkdirDir(w) \/ PeerRename(w)
  \/ PeerCmLoop(w) \/ PeerCmExistsFile(w) \/ PeerCmExistsDir(w)
  \/ PeerCmMkdir(w) \/ PeerCmOpen(w)

-----------------------------------------------------------------------------
(* Specifications *)

\* The chunk pipeline: the worker parses packets with fragments at any
\* timestamp of the model, and the controller stops it with Close().
Next == WorkerRun \/ ParseFragment \/ Close

Spec == Init /\ [][Next]_vars

\* Stopping the worker: the controller calls Close() and runs the destructor
\* at any moment, the worker's data all lies in chunk 0.
StopWorker == WorkerRun \/ ParseFragmentStop \/ DropBatch

StopNext == StopWorker \/ Close \/ Destructor

StopSpec == Init /\ [][StopNext]_vars

\* the two threads are scheduled by the operating system: each keeps running
FairStopSpec == StopSpec /\ WF_vars(StopWorker) /\ WF_vars(Destructor)

\* The packet decoder: the worker decodes packets of the three boards word by
\* word, for any payload size and channel map of the model, while the
\* controller drains the byte counts, calls Close() and runs the destructor.
DecodeInit ==
  /\ \E payload_bytes \in PayloadBytes, unknown \in ChannelMaps :
       DecoderInit(payload_bytes, unknown)
  /\ WorkerInit
  /\ peers = NoPeers
  /\ cc = NoHandler

DecodeNext == WorkerStart \/ DecGetData \/ DecodePacket

DecodeSpec == DecodeInit /\ [][DecodeNext]_vars

\* the worker is inside ParseDocuments: one of the steps of DecodePacket is
\* enabled
Decoding == pc \in {"pd_while", "pd_channel", "pd_pulse", "pd_flush"}

\* the worker thread is scheduled by the operating system: it keeps running
\* while it has a packet to decode.  This is WF_vars(DecodePacket) with
\* ENABLED <<DecodePacket>>_vars written out as Decoding.
FairDecodeSpec ==
  DecodeSpec /\ ([]<>(~Decoding) \/ []<><<DecodePacket>>_vars)

\* The packet decoder while the worker is stopped: the destructor runs at any
\* moment of the decoding of a packet.
DecodeStopNext == WorkerStart \/ DecGetDataLast \/ DecodePacket \/ Destructor

DecodeStopSpec == DecodeInit /\ [][DecodeStopNext]_vars

\* The byte counts per channel: the worker decodes packets and the controller
\* drains the counts with GetDataPerChan and calls Close() at any moment.
DrainNext ==
  WorkerStart \/ DecGetDataDrain \/ DecodePacket \/ GetDataPerChan \/ Close

DrainSpec == DecodeInit /\ [][DrainNext]_vars

\* Two workers flush their buckets into the same output tree.
PeerInit ==
  /\ DecoderInit(6, {})
  /\ WorkerInit
  /\ peers \in [Workers -> {PeerStart(keys) : keys \in PeerKeys}]
  /\ cc = NoHandler

PeerNext == \E w \in Workers : PeerRun(w)

PeerSpec == PeerInit /\ [][PeerNext]_vars

-----------------------------------------------------------------------------
(* The crate-control handler: CControl_Handler (src/CControl_Handler.cc) *)

\* a device pointer that is NULL
NULL == "NULL"

\* fBoardHandle is read by the constructor before anything has set it: the
\* values it may hold
Indeterminate == {0, 8}

\* the handler after its constructor (lines 11-20)
Constructed(handle) ==
  [fStatus |-> "Idle", fV2718 |-> NULL, fV1495 |-> NULL, fDDC10 |-> NULL,
   fBoardHandle |-> handle, fCurrentRun |-> handle - 1, fBID |-> handle - 1,
   called |-> "CControl_Handler", returned |-> 0]

\* what the options file and the hardware answer during one DeviceArm: the
\* results of GetCrateOpt, CrateInit, GetHEVOpt, DDC10::Initialize and
\* WriteReg (0 for success), the numbers of boards GetBoards finds, the
\* handle of the V2718, the V1495's board id and the number of its registers
ArmAnswers ==
  [GetCrateOpt : {0, -1}, nV2718 : {0, 1, 2}, CrateInit : {0, -1},
   GetHandle : {3}, nDDC10 : {0, 1}, GetHEVOpt : {0, -1},
   Initialize : {0, -1}, nV1495 : {0, 1}, board : {1}, registers : {0, 1},
   WriteReg : {0, -1}]

\* the body of DeviceStop (lines 138-162): every device is deleted
Stopped(h) ==
  [h EXCEPT !.fV2718 = NULL, !.fDDC10 = NULL, !.fV1495 = NULL,
            !.fStatus = "Idle", !.returned = 0]

\* fStatus = DAXHelpers::Idle; return -1;
ArmFailed(h) == [h EXCEPT !.fStatus = "Idle", !.returned = -1]

\* the handler after DeviceArm(run, opts), for the answers a (lines 27-115)
Armed(h, run, a) ==
  LET h0 == [Stopped([h EXCEPT !.fStatus = "Arming"]) EXCEPT !.fCurrentRun = run]
      h1 == [h0 EXCEPT !.fV2718 = "V2718"]
      h2 == [h1 EXCEPT !.fBoardHandle = a.GetHandle]
      hev == a.nDDC10 = 1 /\ a.GetHEVOpt = 0
      h3 == IF hev THEN [h2 EXCEPT !.fDDC10 = "DDC10"] ELSE h2
      h4 == IF a.nV1495 = 1
            THEN [h3 EXCEPT !.fBID = a.board, !.fV1495 = "V1495"]
            ELSE h3
  IN IF a.GetCrateOpt # 0 THEN ArmFailed(h0)
     ELSE IF a.nV2718 # 1 THEN ArmFailed(h0)
     ELSE IF a.CrateInit # 0 THEN ArmFailed(h1)
     ELSE IF hev /\ a.Initialize # 0 THEN ArmFailed(h3)
     ELSE IF a.nV1495 = 1 /\ a.registers > 0 /\ a.WriteReg # 0
     THEN ArmFailed(h4)
     ELSE [h4 EXCEPT !.fStatus = "Armed", !.returned = 0]

\* the handler after DeviceStart(), SendStartSignal returning sent (lines
\* 121-135)
Started(h, sent) ==
  IF h.fStatus # "Armed" THEN [h EXCEPT !.returned = 0]
  ELSE IF h.fV2718 = NULL \/ sent # 0
  THEN [h EXCEPT !.fStatus = "Error", !.returned = -1]
  ELSE [h EXCEPT !.fStatus = "Running", !.returned = 0]

\* what a call of the handler leaves alone
crateRest == <<workerObj, chunkVars, pc, parseVars, wofVars, dtorVars,
               histVars, fFragmentBytes, unknown_channels, pkt, idx,
               clock_counters, last_times_seen, data_per_chan, ev, channel,
               pulse, fFailCounter, fDataPerChan, fEventsProcessed,
               fFragmentsProcessed, fFragmentSize, ret, nDecoded,
               nCheckError, routed, recorded, peers>>

DeviceArm ==
  /\ \E run \in 1..MaxRun, a \in ArmAnswers :
       cc' = [Armed(cc, run, a) EXCEPT !.called = "DeviceArm"]
  /\ UNCHANGED crateRest

DeviceStart ==
  /\ \E sent \in {0, -1} :
       cc' = [Started(cc, sent) EXCEPT !.called = "DeviceStart"]
  /\ UNCHANGED crateRest

DeviceStop ==
  /\ cc' = [Stopped(cc) EXCEPT !.called = "DeviceStop"]
  /\ UNCHANGED crateRest

\* The crate-control handler: the dispatcher calls DeviceArm, DeviceStart and
\* DeviceStop in any order; the process has no worker.
CrateInit ==
  /\ DecoderInit(6, {})
  /\ WorkerInit
  /\ ~fRunning
  /\ fBufferLength = 0
  /\ peers = NoPeers
  /\ \E handle \in Indeterminate : cc = Constructed(handle)

CrateNext == DeviceArm \/ DeviceStart \/ DeviceStop

CrateSpec == CrateInit /\ [][CrateNext]_vars

-----------------------------------------------------------------------------
(* Properties of the chunk router and the chunk writer *)

Last(s) == s[Len(s)]

\* the step appended fragment e to the bucket named key
AppendedTo(key, e) ==
  /\ key \in DOMAIN fFragments'
  /\ fFragments'[key] =
       (IF key \in DOMAIN fFragments THEN fFragments[key] ELSE <<>>) \o <<e>>

\* the buckets a step has changed or created
ChangedBuckets ==
  {k \in DOMAIN fFragments' :
     k \notin DOMAIN fFragments \/ fFragments'[k] # fFragments[k]}

\* C1: every fragment routed at time t with c = floor(t / full_chunk_ns) is
\* appended to the primary bucket pad6(c), and to pad6(c+1)_pre and
\* pad6(c)_post exactly when (c+1)*full_chunk_ns - t < overlap_ns.
C1_RoutedToPrimaryAndOverlap ==
  [][nFragments' = nFragments + 1 =>
       \A k \in ChangedBuckets :
         LET e == Last(fFragments'[k])
             c == e.t \div fFullChunkLength
             inBand == (c + 1) * fFullChunkLength - e.t < fChunkOverlap
         IN /\ AppendedTo(GetStringFormat(c), e)
            /\ (inBand <=> /\ AppendedTo(GetStringFormat(c + 1) \o STR_pre, e)
                           /\ AppendedTo(GetStringFormat(c) \o STR_post, e))]_vars

\* the names of the three buckets of chunk id k
Primary(k) == GetStringFormat(k)
Pre(k) == GetStringFormat(k) \o STR_pre
Post(k) == GetStringFormat(k) \o STR_post

\* the worker's file is in directory `name` of the output tree
Holds(name) == name \in fs.dirs /\ <<name, FileName>> \in DOMAIN fs.files

\* the bucket directories that hold the worker's file
BucketDirs == {p[1] : p \in DOMAIN fs.files} \ {STR_THE_END}

\* the highest chunk id the worker has a file for
KMax == CHOOSE k \in {IdNr(d) : d \in BucketDirs} :
          \A d \in BucketDirs : IdNr(d) <= k

TheEndExists == <<STR_THE_END, FileName>> \in DOMAIN fs.files

\* the worker has done its end-of-stream flush and has files in the tree
Flushed == pc = "done" /\ TheEndExists /\ BucketDirs # {}

SealedNow == SeqToSet(idx_to_clear') \ SeqToSet(idx_to_clear)

\* C3: outside the end-of-stream flush a bucket with chunk id k is persisted
\* only after the worker has seen a fragment with chunk id >= k+2, and no
\* bucket with id >= threshold-1 is persisted.
C3_SealedTwoChunksBehind ==
  [][~end' =>
       \A n \in SealedNow :
         /\ \E c \in seenChunks : c >= IdNr(n) + 2
         /\ IdNr(n) < smallest_index_seen - 1]_vars

\* C3 witness: a non-end writer invocation has persisted bucket 000000 and
\* has not yet erased it
C3_Witness ==
  /\ pc = "wof_loop"
  /\ ~end
  /\ Primary(0) \in SeqToSet(idx_to_clear)
  /\ Holds(Primary(0))

\* C4: a bucket's final file, once published by rename or created as a gap
\* placeholder, is never replaced by a later writer invocation.
C4_PublishedAtMostOnce ==
  [][\A p \in DOMAIN fs.files :
       p[1] # STR_THE_END =>
         p \in DOMAIN fs'.files /\ fs'.files[p] = fs.files[p]]_vars

\* C5: the chunk ids a worker seals never go down, so the gap-fill watermark
\* fMissingVerified never moves backwards.
C5_WatermarkMonotone == [][fMissingVerified' >= fMissingVerified]_vars

\* C6: once bucket N has been persisted (its file renamed into N/) there is no
\* N_temp directory in the output tree.
C6_NoTempAfterPersist ==
  \A d \in BucketDirs :
    fs.files[<<d, FileName>>] # EmptyFile => (d \o STR_temp) \notin fs.dirs

\* the step erases the buckets of an end-of-stream writer invocation
EraseAtEnd == pc = "wof_loop" /\ pc' = "wof_end"

\* C7: THE_END is written only after every in-memory bucket has been
\* persisted to its final directory, and while THE_END exists the worker
\* holds no bucket.
C7_TheEndAfterAllPersisted ==
  [][/\ TheEndExists' => fFragments' = <<>>
     /\ (~TheEndExists /\ TheEndExists') => fFragments = <<>>
     /\ EraseAtEnd =>
          /\ fFragments' = <<>>
          /\ \A k \in DOMAIN fFragments :
               /\ fFragments[k] = NullBuffer
               /\ Holds(k)
               /\ fs.files[<<k, FileName>>] # EmptyFile]_vars

\* C7 witness: THE_END exists after an end-of-stream flush that persisted a
\* bucket the worker still held
C7_Witness ==
  /\ TheEndExists
  /\ fMissingVerified = 2
  /\ Holds(Post(0))
  /\ fs.files[<<Post(0), FileName>>] # EmptyFile

-----------------------------------------------------------------------------
(* Properties of stopping the worker *)

\* Close() or the destructor has set fActive to false
StopRequested == closed \/ dpc # "d_idle"

\* the worker thread has left ReadAndInsertData with everything flushed, or the
\* object was destroyed before the thread ever ran
WorkerStopped ==
  \/ pc = "done" /\ ~fRunning /\ fFragments = <<>>
  \/ pc = "start" /\ dpc = "d_done"

\* C8: whenever fActive is set to false, under any interleaving with the
\* worker thread, the worker eventually finishes its batch, flushes with
\* end=true and sets fRunning to false.
C8_SoftStopNeverLost == StopRequested ~> WorkerStopped

Packets == 1..nPackets

\* C9: every packet obtained from the packet source is deleted exactly once:
\* never twice, not at all only while its batch is being worked on; and a
\* packet is deleted without being parsed only under fForceQuit.
C9_ReleasedExactlyOnce ==
  /\ \A p \in Packets : released[p] <= 1
  /\ b = <<>> => \A p \in Packets : released[p] = 1
  /\ \A i \in 1..Len(b) : b[i] # nullptr => released[b[i]] = 0
  /\ \A p \in Packets : (released[p] = 1 /\ p \notin parsed) => fForceQuit
  /\ pc = "drop" => \A i \in 1..Len(b) : b[i] # nullptr => b[i] \notin parsed

\* C9 witness: after a force quit the batch is gone and a packet of it was
\* deleted without being parsed
C9_Witness ==
  /\ fForceQuit
  /\ b = <<>>
  /\ pc = "done"
  /\ \E p \in Packets : released[p] = 1 /\ p \notin parsed
  /\ \E p \in Packets : released[p] = 1 /\ p \in parsed

\* C10: the destructor always returns.
C10_DestructorTerminates == (dpc # "d_idle") ~> (dpc = "d_done")

\* ---- fragment sizes (lines 128-147, 318-360) ----

\* the bytes a bucket's buffer holds: its fragments, one behind the other
RECURSIVE BufferSize(_)
BufferSize(bucket) ==
  IF bucket = <<>> THEN 0
  ELSE Len(bucket[1]) + BufferSize(Tail(bucket))

RoutedIdx == 1..Len(routed)

\* C11: every fragment appended to any bucket, waveform or artificial
\* dead-time, is exactly 24 + fFragmentBytes bytes long, so the length of
\* every bucket's buffer is a multiple of that size.
C11_FixedFragmentSize ==
  /\ \A i \in RoutedIdx :
       Len(routed[i].fragment) = 24 + fFragmentBytes
  /\ \A key \in DOMAIN fFragments :
       /\ \A i \in 1..Len(fFragments[key]) :
            Len(fFragments[key][i]) = 24 + fFragmentBytes
       /\ BufferSize(fFragments[key]) % (24 + fFragmentBytes) = 0

\* C11 witness: with an odd payload size a dead-time fragment, a full
\* waveform fragment and a waveform fragment cut short share a bucket map
C11_Witness ==
  /\ fFragmentBytes = 3
  /\ \E i, j \in RoutedIdx :
       /\ routed[i].dead
       /\ ~routed[j].dead
  /\ \E key \in DOMAIN fFragments : Len(fFragments[key]) >= 2

\* ---- byte accounting (lines 330, 402) ----

\* the bytes appended to all buckets so far (no bucket is erased while the
\* writer does not run)
RECURSIVE TotalBytes(_, _)
TotalBytes(frags, keys) ==
  IF keys = {} THEN 0
  ELSE LET key == CHOOSE x \in keys : TRUE
       IN BufferSize(frags[key]) + TotalBytes(frags, keys \ {key})

\* the timestamp lies in the last fChunkOverlap time units of its chunk
InOverlapBand(timestamp) ==
  fFullChunkLength - WDivInt(timestamp, fFullChunkLength).r < fChunkOverlap

DeadIdx == {i \in RoutedIdx : routed[i].dead}
BandIdx == {i \in RoutedIdx : InOverlapBand(routed[i].timestamp)}

Sighting ==
  /\ pc = "pd_channel"
  /\ pc' = "pd_pulse" \/ Len(routed') = Len(routed) + 1

SightedChannel == IF pc' = "pd_pulse" THEN channel' ELSE Last(routed').channel
SightedTime == IF pc' = "pd_pulse" THEN pulse'.channel_time
               ELSE Last(routed').channel_time
SightedTime64 == IF pc' = "pd_pulse" THEN pulse'.Time64
                 ELSE Last(routed').Time64

\* the packet's records of a channel, in the order they were routed
SeenIdx(c) ==
  {i \in RoutedIdx : routed[i].packet = nDecoded /\ routed[i].channel = c}

\* the counter of a channel's first sighting, by the rules
FirstCounter(channel_time, header_time, clock_counter) ==
  IF /\ WLess(FromInt(1500000000, 2), channel_time)
     /\ WLess(header_time, FromInt(500000000, 2))
     /\ clock_counter # FromInt(0, 2)
  THEN WAdd(clock_counter, <<65535, 65535>>)
  ELSE IF /\ WLess(channel_time, FromInt(500000000, 2))
          /\ WLess(FromInt(1500000000, 2), header_time)
       THEN WAdd(clock_counter, FromInt(1, 2))
       ELSE clock_counter

\* ns_per_clk * ((counter << 31) + channel_time) on 64 bits
TimeOfCounter(counter, channel_time, ns) ==
  WMulInt(WAdd(WDivInt(<<0, 0>> \o counter, 2).q, channel_time \o <<0, 0>>),
          ns)

\* C13: with at most two channel header words (default firmware included), on
\* a channel's first sighting in a packet its counter starts at the packet's
\* clock_counter and is decremented when channel_time > 1.5e9, header_time <
\* 5e8 and the counter is not zero, incremented when channel_time < 5e8 and
\* header_time > 1.5e9, and left alone otherwise; the emitted timestamp uses
\* the resulting counter.
C13_FirstSightingCounter ==
  [][(/\ Sighting
      /\ fFmt[pkt.bid].channel_header_words <= 2
      /\ SeenIdx(SightedChannel) = {})
       => LET want == FirstCounter(SightedTime, pkt.header_time,
                                   pkt.clock_counter)
          IN /\ clock_counters'[SightedChannel] = want
             /\ SightedTime64 = TimeOfCounter(want, SightedTime,
                                              fFmt[pkt.bid].ns_per_clk)]_vars

\* the packet's latest record of channel c
PrevSeen(c) == routed[CHOOSE i \in SeenIdx(c) : \A j \in SeenIdx(c) : j <= i]

\* C14: when a channel is sighted again in a packet with a channel_time below
\* the one last seen (the 31-bit clock wrapped once), the channel counter is
\* incremented by exactly one, and the timestamp is later than the earlier
\* one by the nominal spacing ns_per_clk * (channel_time + 2^31 - last).
C14_WrapKeepsSpacing ==
  [][(/\ Sighting
      /\ fFmt[pkt.bid].channel_header_words <= 2
      /\ SeenIdx(SightedChannel) # {}
      /\ WLess(SightedTime, PrevSeen(SightedChannel).channel_time))
       => LET prev == PrevSeen(SightedChannel)
              ns == fFmt[pkt.bid].ns_per_clk
          IN /\ clock_counters'[SightedChannel]
                  = WAdd(clock_counters[SightedChannel], FromInt(1, 2))
             /\ WLess(prev.Time64, SightedTime64)
             /\ WAdd(prev.Time64,
                     TimeOfCounter(FromInt(1, 2), SightedTime, ns))
                  = WAdd(SightedTime64,
                         WMulInt(prev.channel_time \o <<0, 0>>, ns))]_vars

\* ---- error handling in the decoder (lines 194-201, 269-298, 311-315) ----

\* the worker is at an event header inside the packet whose second word has
\* the board-fail bit 0x4000000, and it takes a step
BoardFailStep ==
  /\ pc = "pd_while"
  /\ idx + 1 < Len(pkt.buff)
  /\ pkt.buff[idx + 1] # <<65535, 65535>>
  /\ pkt.buff[idx + 1][2] \div 4096 = 10
  /\ (pkt.buff[idx + 2][2] \div 1024) % 2 = 1
  /\ idx' # idx \/ pc' # pc

FailCount(counter, bid) == IF bid \in DOMAIN counter THEN counter[bid] ELSE 0

\* C15: at an event header with the board-fail bit set no fragment is emitted
\* for the event, the board's fail counter goes up by exactly one,
\* CheckError(board) is called once, and the cursor moves on by exactly 4
\* words before the decoder resumes with the next word.
C15_BoardFailSkipsEvent ==
  [][BoardFailStep
       => /\ routed' = routed
          /\ fFragments' = fFragments
          /\ fFragmentsProcessed' = fFragmentsProcessed
          /\ \A bid \in Boards :
               FailCount(fFailCounter', bid)
                 = FailCount(fFailCounter, bid)
                     + (IF bid = pkt.bid THEN 1 ELSE 0)
          /\ nCheckError' = nCheckError + 1
          /\ idx' = idx + 4
          /\ pc' = "pd_while"]_vars

\* C15 witness: the packet with a board-fail event followed by a good event
\* is done: one failure counted, and the fragments are those of the good event
C15_Witness ==
  /\ pc = "loop"
  /\ nDecoded = 1
  /\ pkt = PktBoardFail
  /\ FailCount(fFailCounter, 0) = 1
  /\ nCheckError = 1
  /\ routed # <<>>
  /\ \A i \in RoutedIdx : routed[i].event = 4

\* the next channel of the mask fails the sanity check, whatever lies beyond
\* the packet, and the worker takes a step
WhoopsStep ==
  /\ pc = "pd_channel"
  /\ NextChannel < max_channels
  /\ \A oob \in OobChoices(total_words, idx, ChannelHeaderReads) :
       ThisChannel(oob).kind = "whoops"
  /\ idx' # idx \/ pc' # pc \/ routed' # routed

\* the records routed for the same event as record i
SameEvent(i) ==
  {j \in RoutedIdx : /\ routed[j].packet = routed[i].packet
                     /\ routed[j].event = routed[i].event}

\* the dead-time fragment of an event is its last fragment, carries the
\* channel's time and channel number 790, and the event's other fragments are
\* waveforms of earlier channels
DeadtimeLast ==
  \A i \in DeadIdx :
    /\ routed[i].timestamp = routed[i].Time64
    /\ SubSeq(routed[i].fragment, 1, 8) = Bytes(routed[i].Time64)
    /\ SubSeq(routed[i].fragment, 15, 16) = <<22, 3>>
    /\ \A j \in SameEvent(i) \ {i} :
         /\ j < i
         /\ ~routed[j].dead
         /\ routed[j].channel < routed[i].channel

\* C16: when the sanity check fails for a channel, exactly one artificial
\* dead-time fragment with the channel's timestamp t is routed for it, and no
\* waveform fragment is emitted for that channel or a later channel of the
\* same event: the dead-time fragment is the event's last fragment, and the
\* event's other fragments are waveforms of earlier channels.
C16_DeadtimeEndsEvent ==
  [][/\ WhoopsStep
          => /\ Len(routed') = Len(routed) + 1
             /\ SubSeq(routed', 1, Len(routed)) = routed
             /\ Last(routed').dead
             /\ Last(routed').channel = NextChannel
             /\ Last(routed').event = ev.event_start_idx
             /\ fFragmentsProcessed' = fFragmentsProcessed
             /\ pc' \in {"pd_while", "pd_flush"}
     /\ DeadtimeLast']_vars

\* C16 witness: channel 0 of an event of channels 0 and 1 had an event header
\* in its payload; the packet is done and the event has its dead-time
\* fragment only
C16_Witness ==
  /\ pc = "loop"
  /\ pkt = PktStrayHeader
  /\ \E i \in DeadIdx :
       /\ routed[i].packet = nDecoded
       /\ routed[i].event = 0
       /\ routed[i].channel = 0
       /\ SameEvent(i) = {i}

\* the next channel of the mask carries data, whatever lies beyond the
\* packet, the channel map does not have it, and the worker takes a step
UnknownChannelStep ==
  /\ pc = "pd_channel"
  /\ NextChannel < max_channels
  /\ NextChannel \in unknown_channels
  /\ \A oob \in OobChoices(total_words, idx, ChannelHeaderReads) :
       ThisChannel(oob).kind = "pulse"
  /\ idx' # idx \/ pc' # pc \/ routed' # routed

\* C17: a channel with data that the channel map does not know is fatal: no
\* fragment is emitted for it, the exception leaves ParseDocuments and
\* ReadAndInsertData, and the worker processes no further event or packet.
C17_UnknownChannelFatal ==
  [][/\ UnknownChannelStep
          => /\ pc' = "pd_throw"
             /\ routed' = routed
             /\ fFragments' = fFragments
     /\ pc = "pd_throw"
          => /\ pc' = "pd_throw"
             /\ routed' = routed
             /\ fFragments' = fFragments
             /\ fs' = fs
             /\ nDecoded' = nDecoded
             /\ fEventsProcessed' = fEventsProcessed
             /\ fFragmentsProcessed' = fFragmentsProcessed
             /\ idx' = idx
             /\ fRunning' = fRunning]_vars

\* C17 witness: the second packet's channel 0 was emitted, its channel 1 is
\* not in the map: the worker has thrown, with nothing routed for channel 1
C17_Witness ==
  /\ pc = "pd_throw"
  /\ nDecoded = 2
  /\ channel = 1
  /\ \E i \in RoutedIdx : routed[i].packet = 2 /\ routed[i].channel = 0
  /\ \A i \in RoutedIdx : routed[i].packet = 2 => routed[i].channel # 1

\* ---- workers sharing the output tree (lines 492-534, 593-622) ----

\* the step is one of worker w
PeerStepOf(w) == peers'[w] # peers[w]

\* what worker w put into its final files is there
PeerFilesThere(w) ==
  \A d \in DOMAIN peers[w].mine :
    /\ d \in fs.dirs
    /\ <<d, <<"host_tid", w>>>> \in DOMAIN fs.files
    /\ fs.files[<<d, <<"host_tid", w>>>>] = peers[w].mine[d]

\* C18: two workers with distinct tags persist and gap-fill the same chunk
\* directories, under every interleaving of their exists, mkdir, write and
\* rename steps: no step of a worker overwrites, truncates or removes a file
\* of the other, no directory disappears, and every final file a worker
\* wrote or created stays in its directory with the content it was given.
C18_PeerFilesKept ==
  [][/\ \A w \in Workers :
          PeerStepOf(w)
            => \A path \in DOMAIN fs.files :
                 path[2] # <<"host_tid", w>>
                   => /\ path \in DOMAIN fs'.files
                      /\ fs'.files[path] = fs.files[path]
     /\ fs.dirs \subseteq fs'.dirs
     /\ \A w \in Workers : PeerFilesThere(w)']_vars

\* C18 witness: both workers are through; both persisted data into the same
\* chunk directory, and one gap-filled a directory the other persisted into
C18_Witness ==
  /\ \A w \in Workers : peers[w].pc = "done"
  /\ \E d \in DOMAIN peers[1].mine \cap DOMAIN peers[2].mine :
       /\ peers[1].mine[d] = PeerData(1)
       /\ peers[2].mine[d] = PeerData(2)
       /\ fs.files[<<d, <<"host_tid", 1>>>>] = PeerData(1)
       /\ fs.files[<<d, <<"host_tid", 2>>>>] = PeerData(2)
  /\ \E d \in DOMAIN peers[1].mine \cap DOMAIN peers[2].mine :
       /\ peers[1].mine[d] = EmptyFile
       /\ peers[2].mine[d] = PeerData(2)

\* ---- per-channel byte counts (lines 117-126, 312, 380-382) ----

\* map[k] of a std::map<int, int>, 0 for a key it does not have
CountOf(map, k) == IF k \in DOMAIN map THEN map[k] ELSE 0

\* C19: under any interleaving of the worker's flush of a packet's byte
\* counts and the controller's drains, for every channel the bytes drained
\* so far plus the bytes still held in fDataPerChan are the bytes the worker
\* has flushed: none is reported twice and none is lost.
C19_DrainedPlusHeld ==
  \A k \in DOMAIN ret \cup DOMAIN fDataPerChan \cup DOMAIN recorded :
    CountOf(ret, k) + CountOf(fDataPerChan, k) = CountOf(recorded, k)

\* C19 witness: a channel's bytes of the first packet were drained, and those
\* of the second packet are held
C19_Witness ==
  /\ pc = "loop"
  /\ nDecoded = 2
  /\ \E k \in DOMAIN ret :
       /\ ret[k] > 0
       /\ CountOf(fDataPerChan, k) > 0

\* ---- the fragment loop (lines 318-371) ----

\* the waveform fragments among `log` of channel c of the event the worker
\* is in
PulseIdx(log, c) ==
  {i \in 1..Len(log) : /\ ~log[i].dead
                       /\ log[i].packet = nDecoded
                       /\ log[i].event = ev.event_start_idx
                       /\ log[i].channel = c}

\* fragment i of a pulse of samples_in_pulse samples that begins at t
FragmentAsPlanned(r) ==
  LET fragment_samples == fFragmentBytes \div 2
      i == r.index
      left == r.samples_in_pulse - i * fragment_samples
      sw == IF r.bid = 0 THEN 1 ELSE 2
      time == WAdd(r.Time64, FromInt(fragment_samples * sw * i, 4))
  IN /\ left > 0
     /\ r.timestamp = time
     /\ SubSeq(r.fragment, 1, 8) = Bytes(time)
     /\ SubSeq(r.fragment, 9, 12)
          = Bytes(FromInt(IF left < fragment_samples THEN left
                          ELSE fragment_samples, 2))
     /\ SubSeq(r.fragment, 13, 14) = <<sw, 0>>
     /\ SubSeq(r.fragment, 17, 20) = Bytes(FromInt(r.samples_in_pulse, 2))
     /\ SubSeq(r.fragment, 21, 22) = Bytes(FromInt(i, 1))

\* the waveform fragments routed so far: each as planned, and those of a
\* pulse one behind the other with indexes 0, 1, 2, ...
FragmentsInOrder ==
  \A k \in RoutedIdx \ DeadIdx :
    /\ FragmentAsPlanned(routed[k])
    /\ IF routed[k].index = 0
       THEN \A j \in 1..(k - 1) :
              \/ routed[j].dead
              \/ routed[j].packet # routed[k].packet
              \/ routed[j].event # routed[k].event
              \/ routed[j].channel # routed[k].channel
       ELSE /\ k > 1
            /\ ~routed[k - 1].dead
            /\ routed[k - 1].packet = routed[k].packet
            /\ routed[k - 1].event = routed[k].event
            /\ routed[k - 1].channel = routed[k].channel
            /\ routed[k - 1].index = routed[k].index - 1

\* the worker leaves the fragment loop of a pulse
LeavesPulse == pc = "pd_pulse" /\ pc' # "pd_pulse"

\* ceil(samples_in_pulse / fragment_samples)
FragmentsOfPulse ==
  (pulse.samples_in_pulse + (fFragmentBytes \div 2) - 1)
    \div (fFragmentBytes \div 2)

\* C20 as stated: a pulse of samples_in_pulse > 0 samples yields exactly
\* ceil(samples_in_pulse / fragment_samples) fragments, with fragment_index
\* 0, 1, 2, ... in order, samples_this_fragment = min(fragment_samples,
\* samples_in_pulse - i*fragment_samples) and time_this_fragment = t +
\* fragment_samples*ns_per_sample*i.
C20_AllFragmentsOfPulse ==
  [][/\ FragmentsInOrder'
     /\ LeavesPulse /\ pulse.samples_in_pulse > 0
          => Cardinality(PulseIdx(routed', channel)) = FragmentsOfPulse]_vars

\* C20 amended: the same, unless fForceQuit is seen at the end of a pass of
\* the fragment loop: then the fragments emitted are the first ones of the
\* pulse, at least one and with the same indexes, sizes and times.
C20_FragmentsOfPulseUnlessQuit ==
  [][/\ FragmentsInOrder'
     /\ LeavesPulse /\ pulse.samples_in_pulse > 0
          => \/ Cardinality(PulseIdx(routed', channel)) = FragmentsOfPulse
             \/ /\ fForceQuit
                /\ Cardinality(PulseIdx(routed', channel)) >= 1
                /\ Cardinality(PulseIdx(routed', channel))
                     < FragmentsOfPulse]_vars

\* C20 witness: a pulse of 4 samples went out as fragments of 3 and 1 samples
\* and the worker is past it
C20_Witness ==
  /\ fFragmentBytes = 6
  /\ pc = "pd_channel"
  /\ pulse.samples_in_pulse = 4
  /\ Cardinality(PulseIdx(routed, channel - 1)) = 2
  /\ SubSeq(Last(routed).fragment, 9, 12) = <<1, 0, 0, 0>>
  /\ Last(routed).index = 1

-----------------------------------------------------------------------------
(* Properties of one invocation of the chunk writer *)

\* the step returns from WriteOutFiles' loop and erases what was written
WriterReturns == pc = "wof_loop" /\ pc' # "wof_loop"

\* the invocation is to write the bucket named k
Seals(k) == end \/ IdNr(k) < smallest_index_seen - 1

\* C21: a non-end writer invocation with threshold T persists and removes
\* from memory every bucket whose chunk id is < T-1 and leaves every bucket
\* with chunk id >= T-1 in memory with its contents unchanged; an end
\* invocation persists every bucket and leaves the bucket map empty.
C21_WriterSealsBelowThreshold ==
  [][/\ WriterReturns =>
          /\ DOMAIN fFragments' \subseteq DOMAIN held
          /\ \A k \in DOMAIN held :
               IF Seals(k)
               THEN /\ k \notin DOMAIN fFragments'
                    /\ Holds(k)'
                    /\ fs'.files[<<k, FileName>>] = Compress(held[k])
               ELSE /\ k \in DOMAIN fFragments'
                    /\ fFragments'[k] = held[k]
          /\ end => fFragments' = <<>>
     /\ pc = "wof_end" => fFragments = <<>> /\ fFragments' = <<>>]_vars

\* C21 witness: a non-end invocation with threshold 2 has returned; it held
\* buckets of chunk ids 0, 1 and 2, wrote the one of chunk id 0 and left the
\* other two in memory
C21_Witness ==
  /\ pc = "afterparse"
  /\ ~end
  /\ smallest_index_seen = 2
  /\ DOMAIN held = {Primary(0), Primary(1), Primary(2)}
  /\ DOMAIN fFragments = {Primary(1), Primary(2)}
  /\ fs.files[<<Primary(0), FileName>>] = Compress(held[Primary(0)])

-----------------------------------------------------------------------------
(* Properties of the writer's threshold *)

\* the least element of a set of chunk ids
SetMin(S) == CHOOSE m \in S : \A x \in S : m <= x

\* the step leaves ParseDocuments' outer loop behind: lines 380-385
PacketDone == pc = "post" /\ pc' # "post"

\* the step enters a writer invocation that is not the end-of-stream flush
WriterInvoked == pc # "wof_loop" /\ pc' = "wof_loop" /\ ~end'

\* C22: after each packet from which at least one fragment was routed, the
\* chunk writer is invoked exactly once, with threshold equal to the minimum
\* chunk id the router returned over all fragments routed from that packet,
\* artificial dead-time fragments included.
C22_ThresholdIsPacketMinimum ==
  [][/\ PacketDone /\ packetChunks # {} =>
          /\ WriterInvoked
          /\ smallest_index_seen' = SetMin(packetChunks)
     /\ PacketDone /\ packetChunks = {} => ~WriterInvoked
     /\ WriterInvoked => PacketDone]_vars

-----------------------------------------------------------------------------
(* Properties of the decoder's reads of the packet buffer *)

\* the words of the buffer the event header's lines read (lines 173-191)
EventHeaderWords ==
  IF fFmt[pkt.bid].channel_mask_msb_idx # -1
  THEN {idx, idx + 1, idx + 2, idx + 3}
  ELSE {idx, idx + 1, idx + 3}

\* the words the channel loop reads of the channel it is at: buff[idx] of a
\* channel header, the header's other words unless the channel is garbled or
\* empty (lines 217-236), and the words the sanity check looks at behind its
\* test idx+w >= total_words (lines 269-276)
ChannelWords ==
  LET r == ThisChannel([k \in 0..3 |-> Word(0)])
      room == IF r.idx >= total_words THEN 0 ELSE total_words - r.idx
  IN (IF ChannelHeaderReads = {} THEN {}
      ELSE IF idx >= total_words \/ r.kind \in {"garbled", "empty"}
      THEN {idx}
      ELSE {idx + k : k \in ChannelHeaderReads})
     \cup (IF r.kind \in {"whoops", "pulse"}
           THEN {r.idx + w : w \in 0..(MinInt32(room, r.channel_words) - 1)}
           ELSE {})

\* the words the sample copy of the next fragment reads (lines 354-355)
SampleWords ==
  LET plan == FragmentPlan(pulse.Time64, fFmt[pkt.bid].ns_per_sample,
                           fFragmentBytes \div 2, pulse.samples_in_pulse,
                           pulse.index_in_pulse, pulse.fragment_index)
      from == idx * 2 + pulse.index_in_pulse
  IN {s \div 2 : s \in from..(from + plan.samples_this_fragment - 1)}

\* the words of the buffer the worker's next step reads
WordsRead ==
  IF pc = "pd_while" /\ InPacket /\ Top4(pkt.buff[idx + 1]) = 10
  THEN EventHeaderWords
  ELSE IF pc = "pd_channel" /\ NextChannel < max_channels THEN ChannelWords
  ELSE IF pc = "pd_pulse" /\ pulse.index_in_pulse < pulse.samples_in_pulse
  THEN SampleWords
  ELSE {}

\* C23: for every packet buffer of total_words 32-bit words, the decoder
\* never reads a word at index >= total_words: not in the event header, not
\* in a channel header, not in the sanity check and not in the sample copy.
C23_ReadsInsidePacket == [][\A i \in WordsRead : i < total_words]_vars

-----------------------------------------------------------------------------
(* Properties of the gap filler *)

\* the output tree when the bucket at the head of the writer's loop has been
\* renamed into place and CreateMissing is about to be called (line 533)
BeforeGapFill ==
  PersistBucket(fs, Head(iterKeys), fFragments[Head(iterKeys)])

\* the worker holds a bucket of chunk id x whose data is not yet written,
\* after the step
HoldsUnflushed(x) ==
  \E k \in DOMAIN fFragments' : IdNr(k) = x /\ fFragments'[k] # NullBuffer

\* C24: gap filling only ever creates files that do not yet exist and never
\* creates a placeholder for a chunk id whose bucket is still held in memory:
\* a file already published keeps its contents through every gap-fill, and
\* no empty placeholder is published for a bucket with unflushed data.
C24_GapFillOnlyAddsPlaceholders ==
  [][SealedNow # {} =>
       /\ \A p \in DOMAIN BeforeGapFill.files :
            p \in DOMAIN fs'.files /\ fs'.files[p] = BeforeGapFill.files[p]
       /\ \A p \in (DOMAIN fs'.files) \ (DOMAIN BeforeGapFill.files) :
            /\ fs'.files[p] = EmptyFile
            /\ ~HoldsUnflushed(IdNr(p[1]))]_vars

\* C24 witness: the writer is in its loop and has filled the gap below chunk
\* 2: the file of chunk 0, published with data, is there, chunk 1 has an
\* empty placeholder, and the worker still holds the bucket of chunk 3
C24_Witness ==
  /\ pc = "wof_loop"
  /\ fMissingVerified = 2
  /\ Holds(Primary(0))
  /\ fs.files[<<Primary(0), FileName>>] # EmptyFile
  /\ Holds(Primary(1))
  /\ fs.files[<<Primary(1), FileName>>] = EmptyFile
  /\ Primary(3) \in DOMAIN fFragments
  /\ fFragments[Primary(3)] # NullBuffer

-----------------------------------------------------------------------------
(* Properties of the decoder's progress through a packet *)

\* the worker is at the head of the outer loop, at a word of the packet
AtWord == pc = "pd_while" /\ InPacket

\* the step is a pass of the fragment loop
FragmentPass == pc = "pd_pulse" /\ routed' # routed

\* ParseDocuments is over: it has returned, or it has thrown
Parsed == pc = "loop" \/ pc = "pd_throw"

\* C25: ParseDocuments terminates on every finite packet when payload_bytes
\* >= 2: each pass of the outer loop advances the word cursor, by 4 at least
\* on a header word and by 1 otherwise, the cursor never decreases inside the
\* channel loop, and each pass of the fragment loop advances index_in_pulse.
C25_ParseDocumentsTerminates ==
  /\ [][/\ AtWord /\ Top4(pkt.buff[idx + 1]) = 10 => idx' >= idx + 4
        /\ AtWord /\ Top4(pkt.buff[idx + 1]) # 10 => idx' = idx + 1
        /\ pc \in {"pd_channel", "pd_pulse"} => idx' >= idx
        /\ FragmentPass => pulse'.index_in_pulse > pulse.index_in_pulse]_vars
  /\ (pc = "pd_while") ~> Parsed

\* C25 witness: ParseDocuments has returned from a packet of two events, at
\* the end of its words, and one of its pulses went through the fragment loop
\* twice
C25_Witness ==
  /\ pc = "loop"
  /\ nDecoded = 1
  /\ idx = total_words
  /\ fEventsProcessed = 2
  /\ fFragmentBytes >= 2
  /\ \E i \in DOMAIN routed : routed[i].index = 1

-----------------------------------------------------------------------------
(* Properties of the crate-control handler *)

\* the handler holds no device object
NoDevice(h) == h.fV2718 = NULL /\ h.fDDC10 = NULL /\ h.fV1495 = NULL

\* C26: after any sequence of DeviceArm / DeviceStart / DeviceStop calls,
\* whenever the status is Idle no device object is held, also after a
\* DeviceArm that fails and returns -1; and status Running is reached only by
\* a DeviceStart issued while the status is Armed.
C26_IdleHoldsNoDevice ==
  [][/\ cc'.fStatus = "Idle" => NoDevice(cc')
     /\ cc'.fStatus = "Running" /\ cc.fStatus # "Running" =>
          cc.fStatus = "Armed" /\ cc'.called = "DeviceStart"]_vars

====
